---- MODULE Spec2Model ----
(***************************************************************************)
(* The pyuvm GCD testbench (src/pyuvm/gcd) as a state machine.             *)
(*                                                                         *)
(* Tasks are cooperative coroutines: the test's run_phase (which runs the  *)
(* sequence body inside seq.start), the driver's run_phase and the         *)
(* monitor's run_phase.  Exactly one task executes at a time (cur); a task *)
(* keeps the processor until it                                            *)
(* awaits a clock edge, the timer or a sequencer event.  A block between   *)
(* two awaits is split into several actions only where an intermediate     *)
(* state is worth observing (capture, publish, subscribers, item_done);    *)
(* no other task can run in between because cur stays with the task.       *)
(*                                                                         *)
(* The design under test is outside src/: it is an environment that        *)
(* changes its outputs at every rising edge (Edge), in one of three modes. *)
(* Writes to the design's inputs are scheduled (wr) and take effect at the *)
(* end of the time step, so they are applied by Edge.                      *)
(***************************************************************************)
EXTENDS Integers, Sequences, FiniteSets, TLC

\* ------------------------------------------------------------------ bounds

\* Largest num_txns of a RandomGCDSequence with free draws.
MaxTxns == 2

\* ------------------------------------------------------- program constants

max_wait == 10
max_cycles == 1000
mon_max_cycles == 1000
ResetCycles == 5
DrainEdges == 10
\* for _ in range(20) of FullTest.run_phase
FullDrainEdges == 20
MaxValue == 65535

\* num_txns of the RandomGCDSequence that RandomTest starts.
RandomTestTxns == 100

\* ------------------------------------------------------------ pure helpers

RECURSIVE Gcd(_, _)
\* math.gcd on non-negative integers (Euclid by remainder).
Gcd(a, b) == IF b = 0 THEN a ELSE Gcd(b, a % b)

RECURSIVE BitAnd(_, _)
\* Python's n & m on non-negative integers.
BitAnd(n, m) ==
    IF n = 0 \/ m = 0 THEN 0
    ELSE (IF n % 2 = 1 /\ m % 2 = 1 THEN 1 ELSE 0) + 2 * BitAnd(n \div 2, m \div 2)

\* is_power_of_two without the test n > 0: 0 & -1 is 0, so 0 passes.
is_power_of_two_NoPositive(n) == BitAnd(n, n - 1) = 0

is_power_of_two(n) == n > 0 /\ BitAnd(n, n - 1) = 0

\* A freshly constructed transaction.
GCDTransaction ==
    [value1 |-> 0, value2 |-> 0, loadingValues |-> FALSE,
     outputGCD |-> 0, outputValid |-> FALSE]

\* GCDTransaction.__eq__ that compares loadingValues as well.
TransactionEq_WithLoad(a, b) ==
    /\ a.value1 = b.value1 /\ a.value2 = b.value2
    /\ a.loadingValues = b.loadingValues
    /\ a.outputGCD = b.outputGCD /\ a.outputValid = b.outputValid

\* GCDTransaction.__eq__ between two transactions: the inputs and the
\* outputs are compared, loadingValues is not.
TransactionEq(a, b) ==
    /\ a.value1 = b.value1 /\ a.value2 = b.value2
    /\ a.outputGCD = b.outputGCD /\ a.outputValid = b.outputValid

\* The directed list with (1071, 1) for its last pair: a pair of the kind
\* (large, 1).
DirectedCases_SlowPair ==
    << <<1, 1>>, <<17, 19>>, <<48, 18>>, <<100, 100>>, <<65535, 65535>>,
       <<256, 1024>>, <<15, 25>>, <<54, 24>>, <<1071, 1>> >>

\* The literal list of DirectedGCDSequence.body.
DirectedCases ==
    << <<1, 1>>, <<17, 19>>, <<48, 18>>, <<100, 100>>, <<65535, 65535>>,
       <<256, 1024>>, <<15, 25>>, <<54, 24>>, <<1071, 462>> >>

\* The literal list of CornerCaseSequence.body.
CornerCases ==
    << <<32768, 32768>>, <<255, 256>>, <<3, 5>>, <<7, 11>>, <<13, 17>> >>

\* Outcomes of randomize() used for free draws: both lie in the first tier
\* (value1, value2 in 1..10000).
RandPairs == { <<48, 18>>, <<17, 19>> }

\* One fixed outcome of five successive randomize() calls (all first tier):
\* the directed vector of the spec's testable properties.
VectorCases ==
    << <<48, 18>>, <<17, 19>>, <<100, 100>>, <<1071, 462>>, <<256, 1024>> >>

\* FullTest.run_phase with the random sequence started with 10
\* transactions.
FullTestSequences_ShortRandom ==
    << <<"DirectedGCDSequence", Len(DirectedCases)>>,
       <<"CornerCaseSequence", Len(CornerCases)>>,
       <<"RandomGCDSequence", 10>>,
       <<"BackToBackSequence", 30>> >>

\* The sequences FullTest.run_phase starts, one after the other, with the
\* number of passes of each body loop.
FullTestSequences ==
    << <<"DirectedGCDSequence", Len(DirectedCases)>>,
       <<"CornerCaseSequence", Len(CornerCases)>>,
       <<"RandomGCDSequence", 50>>,
       <<"BackToBackSequence", 30>> >>

\* The number of transactions of the first s sequences of FullTest.
SegmentEnd(s) ==
    IF s = 0 THEN 0
    ELSE IF s = 1 THEN FullTestSequences[1][2]
    ELSE IF s = 2 THEN FullTestSequences[1][2] + FullTestSequences[2][2]
    ELSE IF s = 3 THEN FullTestSequences[1][2] + FullTestSequences[2][2]
                       + FullTestSequences[3][2]
    ELSE FullTestSequences[1][2] + FullTestSequences[2][2]
         + FullTestSequences[3][2] + FullTestSequences[4][2]

\* The sequence of FullTest (1..4) that produces its i-th transaction
\* (0-based over the whole test).
SequenceOf(i) == CHOOSE s \in 1..4 : SegmentEnd(s - 1) <= i /\ i < SegmentEnd(s)

\* One outcome of the quick branch of BackToBackSequence.body: both operands
\* in 1..100.
QuickPair == <<48, 18>>

\* The pair of the i-th transaction of FullTest for one fixed outcome of its
\* random draws: the literal lists, then randomize going through VectorCases
\* again and again, then the back-to-back mix.
FullTestDraw(i) ==
    LET s == SequenceOf(i)
        j == i - SegmentEnd(s - 1)
    IN CASE s = 1 -> DirectedCases[j + 1]
         [] s = 2 -> CornerCases[j + 1]
         [] s = 3 -> VectorCases[(j % Len(VectorCases)) + 1]
         [] OTHER -> IF j % 3 = 0 THEN QuickPair
                     ELSE VectorCases[(j % Len(VectorCases)) + 1]

\* The two connect calls of connect_phase in the other order.
subscribers_CoverageFirst == << "coverage", "scoreboard" >>

\* The analysis port's subscribers in connection order (GCDEnv.connect_phase).
subscribers == << "scoreboard", "coverage" >>

DutModes == {"correct", "stuck", "arbitrary"}

\* The runs explored: which sequence the test starts, its num_txns, how the
\* random draws come out (free, the vector once, or the vector again and
\* again), how the design behaves, and in which order the tasks an edge
\* resumes are run ("monitor_first", or "any").
Scenarios ==
    {[seq |-> "DirectedGCDSequence", n |-> Len(DirectedCases), rng |-> "none", dut |-> d,
           order |-> "monitor_first"] :
        d \in {"correct", "stuck"}}
    \cup {[seq |-> "CornerCaseSequence", n |-> Len(CornerCases), rng |-> "none", dut |-> d,
           order |-> "monitor_first"] :
            d \in {"correct", "stuck"}}
    \cup {[seq |-> "RandomGCDSequence", n |-> Len(VectorCases), rng |-> "vector",
           dut |-> "correct",
           order |-> "monitor_first"]}
    \cup {[seq |-> "RandomGCDSequence", n |-> RandomTestTxns, rng |-> "cycle",
           dut |-> "correct",
           order |-> "monitor_first"]}
    \cup {[seq |-> "FullTest", n |-> SegmentEnd(4), rng |-> "full", dut |-> "correct",
           order |-> "monitor_first"]}
    \cup {[seq |-> "RandomGCDSequence", n |-> n, rng |-> "free", dut |-> d,
           order |-> "monitor_first"] :
            n \in 0..MaxTxns, d \in DutModes}

\* ---------------------------------------------------------------- state

VARIABLES
    scn,            \* the scenario of this run (fixed at Init)
    phase,          \* UVM phase: "run", "report", "report_cov", "done", "fatal"
    objection,      \* objections raised and not dropped
    cur,            \* the task executing now: "none", "driver", "test", "monitor"
    \* test run_phase and the sequence body it awaits
    t_pc, t_ready, s_i, s_txn, t_edges,
    \* transaction objects that are still referenced, by identity
    heap,
    \* sequencer (pyuvm): request queue, item handed out, per-item events
    req_q, current_item, start_condition, finish_condition,
    \* driver
    d_pc, d_ready, d_txn, reset_n, wait_cycles, cycles, ap_i,
    \* design interface: applied inputs, scheduled writes, outputs, registers
    inp, wr, io_outputValid, io_outputGCD, x, y,
    \* scoreboard and coverage
    passed, failed, sb_raised, cov,
    \* history (not read by any guard of the program)
    produced, received, n_finished, n_done, ap_writes, n_timeout,
    d_timed_out, d_txn0, w_edges, sb_received,
    \* monitor: position, resumed by the edge, the transaction being
    \* reconstructed, its loop counter
    m_pc, m_ready, m_txn, m_cycles,
    \* monitor history: edges awaited in its wait loop, loads sampled,
    \* transactions published and dropped; edges at which load was asserted
    m_edges, m_seen, m_published, m_dropped, n_loads,
    \* history: the transaction the monitor published for the load it
    \* sampled last (the default transaction when it published none)
    m_last,
    \* the generation policies taken alone: policy, pass, position, and the
    \* transaction of the last pass
    g_seq, g_i, g_pc, g_txn

testVars == <<t_pc, t_ready, s_i, s_txn, t_edges>>
seqrVars == <<req_q, current_item, start_condition, finish_condition>>
drvVars  == <<d_pc, d_ready, d_txn, reset_n, wait_cycles, cycles, ap_i>>
dutVars  == <<inp, io_outputValid, io_outputGCD, x, y>>
subVars  == <<passed, failed, sb_raised, cov>>
histVars == <<produced, received, n_finished, n_done, ap_writes, n_timeout,
              d_timed_out, d_txn0, w_edges, sb_received>>
monVars  == <<m_pc, m_ready, m_txn, m_cycles, m_edges, m_seen, m_published, m_last,
              m_dropped, n_loads>>
genVars  == <<g_seq, g_i, g_pc, g_txn>>
vars == <<scn, phase, objection, cur, testVars, heap, seqrVars, drvVars,
          dutVars, wr, subVars, histVars, monVars, genVars>>

\* -------------------------------------------------------------- helpers

\* The objects of h that are still referenced by one of ids.
Keep(h, ids) == [i \in (DOMAIN h \cap ids) |-> h[i]]

InQueue(q) == {q[k] : k \in 1..Len(q)}

\* DrainCond with the bound compared by <= : one edge too many is awaited.
DrainCond_OffByOne(valid, wc) == valid = 1 /\ wc <= max_wait

\* while self.dut.io_outputValid.value == 1 and wait_cycles < max_wait
DrainCond(valid, wc) == valid = 1 /\ wc < max_wait

\* WaitCond with the bound compared by <= : one edge too many is awaited.
WaitCond_OffByOne(valid, c) == valid = 0 /\ c <= max_cycles

\* while self.dut.io_outputValid.value == 0 and cycles < max_cycles
WaitCond(valid, c) == valid = 0 /\ c < max_cycles

\* TimedOut that never reports a timeout.
TimedOut_Never(c) == FALSE

\* if cycles >= max_cycles
TimedOut(c) == c >= max_cycles

\* Where the driver stands once the drain loop is left: the wait loop is
\* entered with cycles = 0 and either awaits its first edge or is skipped.
AfterDrain(valid) == IF WaitCond(valid, 0) THEN "wait" ELSE "result"

\* The value pairs the i-th (0-based) transaction of the sequence may carry.
Draws(i) ==
    CASE scn.seq = "DirectedGCDSequence" -> {DirectedCases[i + 1]}
      [] scn.seq = "CornerCaseSequence" -> {CornerCases[i + 1]}
      [] scn.rng = "vector" -> {VectorCases[i + 1]}
      [] scn.rng = "cycle" -> {VectorCases[(i % Len(VectorCases)) + 1]}
      [] scn.seq = "FullTest" -> {FullTestDraw(i)}
      [] OTHER -> RandPairs

\* Whether the i-th transaction is created with loadingValues set: every
\* body sets it but the quick branch of BackToBackSequence.
SetsLoad(i) ==
    ~(scn.seq = "FullTest" /\ SequenceOf(i) = 4 /\ (i - SegmentEnd(3)) % 3 = 0)

\* The edges the test awaits after its last sequence.
TestDrainEdges == IF scn.seq = "FullTest" THEN FullDrainEdges ELSE DrainEdges

\* Of the tasks an edge resumes the monitor runs first, in the runs that fix
\* this order.
MonitorRanFirst == scn.order = "monitor_first" => ~m_ready

\* A task that could run in the current time step.
Runnable ==
    \/ d_ready \/ t_ready \/ m_ready
    \/ d_pc = "start" \/ m_pc = "start" \/ t_pc \in {"start", "timer", "dropped"}
    \/ d_pc = "get" /\ req_q # << >>
    \/ t_pc = "start_item" /\ s_txn \in start_condition
    \/ t_pc = "finish_item" /\ s_txn \in finish_condition

\* ------------------------------------------------------------------ Init

\* The testbench after build and connect, at the start of the run phase.
TestbenchStart ==
    /\ phase = "run" /\ objection = 0 /\ cur = "none"
    /\ t_pc = "start" /\ t_ready = FALSE /\ s_i = 0 /\ s_txn = 0 /\ t_edges = 0
    /\ heap = [i \in {} |-> GCDTransaction]
    /\ req_q = << >> /\ current_item = 0
    /\ start_condition = {} /\ finish_condition = {}
    /\ d_pc = "start" /\ d_ready = FALSE /\ d_txn = 0 /\ reset_n = 0
    /\ wait_cycles = 0 /\ cycles = 0 /\ ap_i = 0
    /\ inp = [reset |-> 0, load |-> 0, v1 |-> 0, v2 |-> 0]
    /\ wr = inp
    /\ x = 0 /\ y = 0
    /\ io_outputValid = (IF scn.dut \in {"correct", "late"} THEN 1 ELSE 0)
    /\ io_outputGCD = 0
    /\ passed = 0 /\ failed = 0 /\ sb_raised = FALSE
    /\ cov = [zero_cases |-> 0, one_cases |-> 0, equal_cases |-> 0,
              coprime_cases |-> 0, max_value_cases |-> 0,
              power_of_two_cases |-> 0, total_transactions |-> 0]
    /\ produced = << >> /\ received = << >>
    /\ n_finished = 0 /\ n_done = 0 /\ ap_writes = 0 /\ n_timeout = 0
    /\ d_timed_out = FALSE /\ d_txn0 = GCDTransaction /\ w_edges = 0
    /\ sb_received = 0
    /\ m_pc = "start" /\ m_ready = FALSE /\ m_txn = GCDTransaction /\ m_cycles = 0
    /\ m_edges = 0 /\ m_seen = 0 /\ m_published = 0 /\ m_dropped = 0
    /\ m_last = GCDTransaction
    /\ n_loads = 0

TestbenchInit == scn \in Scenarios /\ TestbenchStart

Init ==
    /\ TestbenchInit
    /\ g_seq = "none" /\ g_i = 0 /\ g_pc = "idle" /\ g_txn = GCDTransaction

\* ------------------------------------------------- sequencer (pyuvm)

\* The rendezvous of pyuvm's uvm_sequencer, which is not part of src/:
\* start_item queues the item and returns once its start event is set,
\* get_next_item hands out the head of the queue and sets that event,
\* item_done sets the item's finish event, finish_item returns once it is set.
start_item(id) == req_q' = Append(req_q, id)

StartItemReturned(id) == id \in start_condition

FinishItemReturned(id) == id \in finish_condition

get_next_item(item) ==
    /\ current_item' = item
    /\ req_q' = Tail(req_q)
    /\ start_condition' = start_condition \cup {item}
    /\ finish_condition' = finish_condition

item_done ==
    /\ finish_condition' = finish_condition \cup {current_item}
    /\ current_item' = 0

\* ------------------------------------------- test run_phase and sequence

\* RandomTest/DirectedTest.run_phase: raise_objection(), await Timer(1 ns).
T_RunPhase ==
    /\ phase = "run" /\ cur = "none" /\ t_pc = "start"
    /\ objection' = objection + 1
    /\ t_pc' = "timer"
    /\ UNCHANGED <<monVars, genVars, scn, phase, cur, t_ready, s_i, s_txn, t_edges, heap, seqrVars,
                   drvVars, dutVars, wr, subVars, histVars>>

\* The timer fires (1 ns, before the next rising edge of the 10 ns clock);
\* the sequence is created and seq.start(seqr) enters body().
T_StartSequence ==
    /\ phase = "run" /\ cur = "none" /\ t_pc = "timer" /\ d_pc # "start"
    /\ t_pc' = "body" /\ cur' = "test"
    /\ UNCHANGED <<monVars, genVars, scn, phase, objection, t_ready, s_i, s_txn, t_edges, heap,
                   seqrVars, drvVars, dutVars, wr, subVars, histVars>>

\* S_StartItem with a loop that goes on to its next pass without submitting
\* every second transaction it constructs.
S_StartItem_SkipOdd ==
    /\ cur = "test" /\ t_pc = "body" /\ s_i < scn.n
    /\ \E p \in Draws(s_i) :
         LET id  == s_i + 1
             txn == [GCDTransaction EXCEPT !.value1 = p[1], !.value2 = p[2],
                                           !.loadingValues = SetsLoad(s_i)]
         IN /\ s_txn' = id
            /\ produced' = Append(produced, id)
            /\ heap' = Keep([i \in DOMAIN heap \cup {id} |->
                                IF i = id THEN txn ELSE heap[i]],
                            {id, d_txn, current_item} \cup InQueue(req_q))
            /\ IF s_i % 2 = 1
                 THEN req_q' = req_q /\ s_i' = s_i + 1
                      /\ t_pc' = "body" /\ cur' = "test"
                 ELSE start_item(id) /\ s_i' = s_i
                      /\ t_pc' = "start_item" /\ cur' = "none"
    /\ UNCHANGED <<monVars, genVars, scn, phase, objection, t_ready, t_edges, current_item,
                   start_condition, finish_condition, drvVars, dutVars, wr, subVars,
                   received, n_finished, n_done, ap_writes, n_timeout,
                   d_timed_out, d_txn0, w_edges, sb_received>>

\* One pass of the body loop up to the await inside start_item: a new
\* transaction is constructed and filled, start_item queues it and waits for
\* the driver to take it.
S_StartItem ==
    /\ cur = "test" /\ t_pc = "body" /\ s_i < scn.n
    /\ \E p \in Draws(s_i) :
         LET id  == s_i + 1
             txn == [GCDTransaction EXCEPT !.value1 = p[1], !.value2 = p[2],
                                           !.loadingValues = SetsLoad(s_i)]
         IN /\ s_txn' = id
            /\ produced' = Append(produced, id)
            /\ start_item(id)
            /\ heap' = Keep([i \in DOMAIN heap \cup {id} |->
                                IF i = id THEN txn ELSE heap[i]],
                            {id, d_txn, current_item} \cup InQueue(req_q))
    /\ t_pc' = "start_item" /\ cur' = "none"
    /\ UNCHANGED <<monVars, genVars, scn, phase, objection, t_ready, s_i, t_edges, current_item,
                   start_condition, finish_condition, drvVars, dutVars, wr, subVars,
                   received, n_finished, n_done, ap_writes, n_timeout,
                   d_timed_out, d_txn0, w_edges, sb_received>>

\* start_item returns once the driver has taken the item; finish_item then
\* waits for the driver's item_done.
S_FinishItem ==
    /\ cur = "none" /\ t_pc = "start_item" /\ StartItemReturned(s_txn)
    /\ start_condition' = start_condition \ {s_txn}
    /\ t_pc' = "finish_item"
    /\ cur' = IF FinishItemReturned(s_txn) THEN "test" ELSE "none"
    /\ UNCHANGED <<monVars, genVars, scn, phase, objection, t_ready, s_i, s_txn, t_edges, heap,
                   req_q, current_item, finish_condition, drvVars, dutVars, wr,
                   subVars, histVars>>

\* S_FinishItemReturn with finish_item not awaited: the loop goes on
\* whether or not the driver has signalled item_done.
S_FinishItemReturn_NoWait ==
    /\ cur \in {"none", "test"} /\ t_pc = "finish_item"
    /\ finish_condition' = finish_condition \ {s_txn}
    /\ n_finished' = n_finished + 1
    /\ s_i' = s_i + 1
    /\ t_pc' = "body" /\ cur' = "test"
    /\ UNCHANGED <<monVars, genVars, scn, phase, objection, t_ready, s_txn, t_edges, heap, req_q,
                   current_item, start_condition, drvVars, dutVars, wr, subVars,
                   produced, received, n_done, ap_writes, n_timeout,
                   d_timed_out, d_txn0, w_edges, sb_received>>

\* finish_item returns; the loop goes to its next pass.
S_FinishItemReturn ==
    /\ cur \in {"none", "test"} /\ t_pc = "finish_item"
    /\ FinishItemReturned(s_txn)
    /\ finish_condition' = finish_condition \ {s_txn}
    /\ n_finished' = n_finished + 1
    /\ s_i' = s_i + 1
    /\ t_pc' = "body" /\ cur' = "test"
    /\ UNCHANGED <<monVars, genVars, scn, phase, objection, t_ready, s_txn, t_edges, heap, req_q,
                   current_item, start_condition, drvVars, dutVars, wr, subVars,
                   produced, received, n_done, ap_writes, n_timeout,
                   d_timed_out, d_txn0, w_edges, sb_received>>

\* The body loop is exhausted, seq.start returns and the test awaits the
\* first of its drain edges.
T_SequenceDone ==
    /\ cur = "test" /\ t_pc = "body" /\ s_i >= scn.n
    /\ t_pc' = "drain" /\ t_edges' = 0 /\ t_ready' = FALSE /\ cur' = "none"
    /\ UNCHANGED <<monVars, genVars, scn, phase, objection, s_i, s_txn, heap, seqrVars, drvVars,
                   dutVars, wr, subVars, histVars>>

\* T_Drain without the loop of edges: the objection is dropped as soon as
\* seq.start has returned and one edge has passed.
T_Drain_OneEdge ==
    /\ cur = "none" /\ t_pc = "drain" /\ t_ready
    /\ MonitorRanFirst
    /\ t_ready' = FALSE
    /\ t_edges' = t_edges + 1
    /\ t_pc' = "dropped" /\ objection' = objection - 1
    /\ UNCHANGED <<monVars, genVars, scn, phase, cur, s_i, s_txn, heap, seqrVars,
                   drvVars, dutVars, wr, subVars, histVars>>

\* for _ in range(10), or range(20) in FullTest: await RisingEdge; then
\* drop_objection().
T_Drain ==
    /\ cur = "none" /\ t_pc = "drain" /\ t_ready
    /\ MonitorRanFirst
    /\ t_ready' = FALSE
    /\ t_edges' = t_edges + 1
    /\ IF t_edges + 1 < TestDrainEdges
         THEN t_pc' = "drain" /\ objection' = objection
         ELSE t_pc' = "dropped" /\ objection' = objection - 1
    /\ UNCHANGED <<monVars, genVars, scn, phase, cur, s_i, s_txn, heap, seqrVars, drvVars, dutVars,
                   wr, subVars, histVars>>

\* ---------------------------------------------------------------- driver

\* reset_dut up to its first await: reset asserted, stimulus zeroed.
D_Reset ==
    /\ phase = "run" /\ cur = "none" /\ d_pc = "start"
    /\ wr' = [reset |-> 1, load |-> 0, v1 |-> 0, v2 |-> 0]
    /\ reset_n' = 0
    /\ d_pc' = "reset_hold" /\ d_ready' = FALSE
    /\ UNCHANGED <<monVars, genVars, scn, phase, objection, cur, testVars, heap, seqrVars, d_txn,
                   wait_cycles, cycles, ap_i, dutVars, subVars, histVars>>

\* D_ResetHold with a loop of 4 passes.
D_ResetHold_FourEdges ==
    /\ phase = "run" /\ cur = "none" /\ d_pc = "reset_hold" /\ d_ready
    /\ MonitorRanFirst
    /\ d_ready' = FALSE
    /\ reset_n' = reset_n + 1
    /\ IF reset_n + 1 < ResetCycles - 1
         THEN d_pc' = "reset_hold" /\ wr' = wr
         ELSE d_pc' = "reset_last" /\ wr' = [wr EXCEPT !.reset = 0]
    /\ UNCHANGED <<monVars, genVars, scn, phase, objection, cur, testVars, heap,
                   seqrVars, d_txn, wait_cycles, cycles, ap_i, dutVars, subVars,
                   histVars>>

\* for _ in range(5): await RisingEdge; after the fifth edge reset is
\* deasserted and one more edge is awaited.
D_ResetHold ==
    /\ phase = "run" /\ cur = "none" /\ d_pc = "reset_hold" /\ d_ready
    /\ MonitorRanFirst
    /\ d_ready' = FALSE
    /\ reset_n' = reset_n + 1
    /\ IF reset_n + 1 < ResetCycles
         THEN d_pc' = "reset_hold" /\ wr' = wr
         ELSE d_pc' = "reset_last" /\ wr' = [wr EXCEPT !.reset = 0]
    /\ UNCHANGED <<monVars, genVars, scn, phase, objection, cur, testVars, heap, seqrVars, d_txn,
                   wait_cycles, cycles, ap_i, dutVars, subVars, histVars>>

\* reset_dut returns; run_phase enters its loop and calls get_next_item,
\* which continues without suspending when an item is already queued.
D_ResetDone ==
    /\ phase = "run" /\ cur = "none" /\ d_pc = "reset_last" /\ d_ready
    /\ MonitorRanFirst
    /\ d_ready' = FALSE
    /\ d_pc' = "get"
    /\ cur' = IF req_q # << >> THEN "driver" ELSE "none"
    /\ UNCHANGED <<monVars, genVars, scn, phase, objection, testVars, heap, seqrVars, d_txn,
                   reset_n, wait_cycles, cycles, ap_i, dutVars, wr, subVars,
                   histVars>>

\* txn = await self.seq_item_port.get_next_item(): the head of the request
\* queue becomes the current item and its start event is set.  pyuvm raises
\* when the previous item was not completed by item_done.
D_GetNextItem ==
    /\ phase = "run" /\ cur \in {"none", "driver"} /\ d_pc = "get"
    /\ req_q # << >>
    /\ IF current_item # 0
         THEN /\ d_pc' = "error" /\ cur' = "none"
              /\ UNCHANGED <<heap, seqrVars, d_txn, received, d_txn0, d_timed_out>>
         ELSE LET item == Head(req_q) IN
              /\ get_next_item(item)
              /\ d_txn' = item
              /\ received' = Append(received, item)
              /\ d_txn0' = heap[item]
              /\ d_timed_out' = FALSE
              /\ heap' = Keep(heap, {item, s_txn} \cup InQueue(Tail(req_q)))
              /\ d_pc' = "drive" /\ cur' = "driver"
    /\ UNCHANGED <<monVars, genVars, scn, phase, objection, testVars, d_ready, reset_n, wait_cycles,
                   cycles, ap_i, dutVars, wr, subVars, produced, n_finished,
                   n_done, ap_writes, n_timeout, w_edges, sb_received>>

\* drive_transaction up to its first await: load asserted with both inputs.
D_Drive ==
    /\ cur = "driver" /\ d_pc = "drive"
    /\ wr' = [wr EXCEPT !.load = 1, !.v1 = heap[d_txn].value1,
                        !.v2 = heap[d_txn].value2]
    /\ d_pc' = "load" /\ d_ready' = FALSE /\ cur' = "none"
    /\ UNCHANGED <<monVars, genVars, scn, phase, objection, testVars, heap, seqrVars, d_txn,
                   reset_n, wait_cycles, cycles, ap_i, dutVars, subVars, histVars>>

\* D_Deassert that leaves load asserted when the drive goes on.
D_Deassert_KeepsLoad ==
    /\ phase = "run" /\ cur = "none" /\ d_pc = "load" /\ d_ready
    /\ MonitorRanFirst
    /\ d_ready' = FALSE
    /\ wr' = wr
    /\ wait_cycles' = 0 /\ cycles' = 0 /\ w_edges' = 0
    /\ d_pc' = IF DrainCond(io_outputValid, 0) THEN "drain"
               ELSE AfterDrain(io_outputValid)
    /\ cur' = IF d_pc' = "result" THEN "driver" ELSE "none"
    /\ UNCHANGED <<monVars, genVars, scn, phase, objection, testVars, heap, seqrVars, d_txn,
                   reset_n, ap_i, dutVars, subVars, produced, received,
                   n_finished, n_done, ap_writes, n_timeout, d_timed_out, d_txn0,
                   sb_received>>

\* After the load edge: load is deasserted, the drain loop is entered with
\* wait_cycles = 0 and, when it is skipped, the wait loop with cycles = 0.
D_Deassert ==
    /\ phase = "run" /\ cur = "none" /\ d_pc = "load" /\ d_ready
    /\ MonitorRanFirst
    /\ d_ready' = FALSE
    /\ wr' = [wr EXCEPT !.load = 0]
    /\ wait_cycles' = 0 /\ cycles' = 0 /\ w_edges' = 0
    /\ d_pc' = IF DrainCond(io_outputValid, 0) THEN "drain"
               ELSE AfterDrain(io_outputValid)
    /\ cur' = IF d_pc' = "result" THEN "driver" ELSE "none"
    /\ UNCHANGED <<monVars, genVars, scn, phase, objection, testVars, heap, seqrVars, d_txn,
                   reset_n, ap_i, dutVars, subVars, produced, received,
                   n_finished, n_done, ap_writes, n_timeout, d_timed_out, d_txn0,
                   sb_received>>

\* D_DrainResume that treats an exhausted drain bound as fatal: the driver
\* raises where it should go on to the wait loop.
D_DrainResume_AbortOnBound ==
    /\ phase = "run" /\ cur = "none" /\ d_pc = "drain" /\ d_ready
    /\ MonitorRanFirst
    /\ d_ready' = FALSE
    /\ d_pc' = IF DrainCond(io_outputValid, wait_cycles + 1) THEN "drain"
               ELSE IF io_outputValid = 1 THEN "error"
               ELSE AfterDrain(io_outputValid)
    /\ wait_cycles' = IF d_pc' = "drain" THEN wait_cycles + 1 ELSE 0
    /\ cur' = IF d_pc' = "result" THEN "driver" ELSE "none"
    /\ UNCHANGED <<monVars, genVars, scn, phase, objection, testVars, heap, seqrVars, d_txn,
                   reset_n, cycles, ap_i, dutVars, wr, subVars, histVars>>

\* One awaited edge of the drain loop, then its condition again.  Nothing
\* reads wait_cycles once the loop is left, so it is cleared there.
D_DrainResume ==
    /\ phase = "run" /\ cur = "none" /\ d_pc = "drain" /\ d_ready
    /\ MonitorRanFirst
    /\ d_ready' = FALSE
    /\ d_pc' = IF DrainCond(io_outputValid, wait_cycles + 1) THEN "drain"
               ELSE AfterDrain(io_outputValid)
    /\ wait_cycles' = IF d_pc' = "drain" THEN wait_cycles + 1 ELSE 0
    /\ cur' = IF d_pc' = "result" THEN "driver" ELSE "none"
    /\ UNCHANGED <<monVars, genVars, scn, phase, objection, testVars, heap, seqrVars, d_txn,
                   reset_n, cycles, ap_i, dutVars, wr, subVars, histVars>>

\* One awaited edge of the wait loop, then its condition again.
D_WaitResume ==
    /\ phase = "run" /\ cur = "none" /\ d_pc = "wait" /\ d_ready
    /\ MonitorRanFirst
    /\ d_ready' = FALSE
    /\ cycles' = cycles + 1
    /\ d_pc' = IF WaitCond(io_outputValid, cycles + 1) THEN "wait" ELSE "result"
    /\ cur' = IF d_pc' = "result" THEN "driver" ELSE "none"
    /\ UNCHANGED <<monVars, genVars, scn, phase, objection, testVars, heap, seqrVars, d_txn,
                   reset_n, wait_cycles, ap_i, dutVars, wr, subVars, histVars>>

\* Capture that stores the valid flag and forgets the result value.
Capture_ValidOnly(t, out, valid) == [t EXCEPT !.outputValid = (valid = 1)]

\* txn.outputGCD = int(io_outputGCD); txn.outputValid = bool(io_outputValid)
Capture(t, out, valid) ==
    [t EXCEPT !.outputGCD = out, !.outputValid = (valid = 1)]

\* DriveResult that captures the outputs after a timeout as well.
DriveResult_Fabricate(t, c, out, valid) ==
    [t EXCEPT !.outputGCD = out, !.outputValid = (valid = 1)]

\* The end of drive_transaction: a timeout is logged, or the outputs are
\* captured into the transaction.
DriveResult(t, c, out, valid) ==
    IF TimedOut(c) THEN t ELSE Capture(t, out, valid)

D_Result ==
    /\ cur = "driver" /\ d_pc = "result"
    /\ heap' = [heap EXCEPT ![d_txn] =
                   DriveResult(heap[d_txn], cycles, io_outputGCD, io_outputValid)]
    /\ d_timed_out' = TimedOut(cycles)
    /\ n_timeout' = IF TimedOut(cycles) THEN n_timeout + 1 ELSE n_timeout
    /\ wait_cycles' = 0 /\ cycles' = 0 /\ w_edges' = 0
    /\ d_pc' = "publish"
    /\ UNCHANGED <<monVars, genVars, scn, phase, objection, cur, testVars, seqrVars, d_ready, d_txn,
                   reset_n, ap_i, dutVars, wr, subVars, produced, received,
                   n_finished, n_done, ap_writes, d_txn0, sb_received>>

\* D_Publish that writes to the analysis port only after a successful drive.
D_Publish_SkipOnTimeout ==
    /\ cur = "driver" /\ d_pc = "publish"
    /\ IF d_timed_out
         THEN ap_writes' = ap_writes /\ ap_i' = 0 /\ d_pc' = "item_done"
         ELSE ap_writes' = ap_writes + 1 /\ ap_i' = 1 /\ d_pc' = "ap_write"
    /\ m_last' = GCDTransaction
    /\ UNCHANGED <<m_pc, m_ready, m_txn, m_cycles, m_edges, m_seen, m_published,
                   m_dropped, n_loads, genVars, scn, phase, objection, cur, testVars, heap, seqrVars, d_ready,
                   d_txn, reset_n, wait_cycles, cycles, dutVars, wr, subVars,
                   produced, received, n_finished, n_done, n_timeout,
                   d_timed_out, d_txn0, w_edges, sb_received>>

\* self.ap.write(txn) is called: the port goes through its subscribers.
\* (The history m_last is compared with the driver's transaction before
\* this step and is not needed after it.)
D_Publish ==
    /\ cur = "driver" /\ d_pc = "publish"
    /\ ap_writes' = ap_writes + 1
    /\ ap_i' = 1
    /\ d_pc' = "ap_write"
    /\ m_last' = GCDTransaction
    /\ UNCHANGED <<m_pc, m_ready, m_txn, m_cycles, m_edges, m_seen, m_published,
                   m_dropped, n_loads,
                   genVars, scn, phase, objection, cur, testVars, heap, seqrVars, d_ready,
                   d_txn, reset_n, wait_cycles, cycles, dutVars, wr, subVars,
                   produced, received, n_finished, n_done, n_timeout,
                   d_timed_out, d_txn0, w_edges, sb_received>>

\* ap.write has called every subscriber and returns.
D_PublishReturn ==
    /\ cur = "driver" /\ d_pc = "ap_write" /\ ap_i > Len(subscribers)
    /\ ap_i' = 0
    /\ d_pc' = "item_done"
    /\ UNCHANGED <<monVars, genVars, scn, phase, objection, cur, testVars, heap, seqrVars, d_ready,
                   d_txn, reset_n, wait_cycles, cycles, dutVars, wr, subVars,
                   histVars>>

\* D_ItemDone with item_done called a second time for the same item: the
\* second call finds no current item and raises.
D_ItemDone_Twice ==
    /\ cur = "driver" /\ d_pc = "item_done"
    /\ n_done' = n_done + 2
    /\ IF current_item # 0 THEN item_done
       ELSE UNCHANGED <<current_item, finish_condition>>
    /\ d_pc' = "error" /\ cur' = "none"
    /\ UNCHANGED <<monVars, genVars, scn, phase, objection, testVars, heap, req_q, start_condition,
                   d_ready, d_txn, reset_n, wait_cycles, cycles, ap_i, dutVars, wr,
                   subVars, produced, received, n_finished, ap_writes, n_timeout,
                   d_timed_out, d_txn0, w_edges, sb_received>>

\* self.seq_item_port.item_done(): the current item's finish event is set
\* and the slot is cleared (pyuvm raises when there is no current item);
\* the loop then calls get_next_item again.
D_ItemDone ==
    /\ cur = "driver" /\ d_pc = "item_done"
    /\ n_done' = n_done + 1
    /\ IF current_item = 0
         THEN /\ d_pc' = "error" /\ cur' = "none"
              /\ UNCHANGED <<current_item, finish_condition>>
         ELSE /\ item_done
              /\ d_pc' = "get"
              /\ cur' = IF req_q # << >> THEN "driver" ELSE "none"
    /\ UNCHANGED <<monVars, genVars, scn, phase, objection, testVars, heap, req_q, start_condition,
                   d_ready, d_txn, reset_n, wait_cycles, cycles, ap_i, dutVars, wr,
                   subVars, produced, received, n_finished, ap_writes, n_timeout,
                   d_timed_out, d_txn0, w_edges, sb_received>>

\* ----------------------------------------------------------- subscribers

\* check_transaction that passes when either condition holds.
check_transaction_Or(t, p, f) ==
    IF t.outputGCD = Gcd(t.value1, t.value2) \/ t.outputValid
      THEN <<p + 1, f>>
      ELSE <<p, f + 1>>

\* check_transaction that assigns 1 to failed where it should add 1.
check_transaction_SetFailed(t, p, f) ==
    IF t.outputGCD = Gcd(t.value1, t.value2) /\ t.outputValid
      THEN <<p + 1, f>>
      ELSE <<p, 1>>

\* check_transaction that leaves a transaction without a valid result
\* uncounted.
check_transaction_SkipInvalid(t, p, f) ==
    IF ~t.outputValid THEN <<p, f>>
    ELSE IF t.outputGCD = Gcd(t.value1, t.value2)
      THEN <<p + 1, f>>
      ELSE <<p, f + 1>>

\* GCDScoreboard.check_transaction: the new (passed, failed).
check_transaction(t, p, f) ==
    LET expected_gcd == Gcd(t.value1, t.value2)
    IN IF t.outputGCD = expected_gcd /\ t.outputValid
         THEN <<p + 1, f>>
         ELSE <<p, f + 1>>

\* SB_write with the mismatch raised as an exception where it is counted:
\* the exception leaves ap.write and ends the driver's run_phase, with
\* item_done not signalled.
SB_write_RaiseOnMismatch ==
    /\ cur = "driver" /\ d_pc = "ap_write"
    /\ ap_i <= Len(subscribers) /\ subscribers[ap_i] = "scoreboard"
    /\ LET r == check_transaction(heap[d_txn], passed, failed)
       IN /\ passed' = r[1] /\ failed' = r[2]
          /\ IF r[2] > failed
               THEN d_pc' = "error" /\ cur' = "none" /\ ap_i' = 0
               ELSE d_pc' = d_pc /\ cur' = cur /\ ap_i' = ap_i + 1
    /\ sb_received' = sb_received + 1
    /\ UNCHANGED <<monVars, genVars, scn, phase, objection, testVars, heap,
                   seqrVars, d_ready, d_txn, reset_n, wait_cycles, cycles,
                   dutVars, wr, sb_raised, cov, produced, received, n_finished,
                   n_done, ap_writes, n_timeout, d_timed_out, d_txn0, w_edges>>

\* GCDScoreboard.write, called by the driver's analysis port.
SB_write ==
    /\ cur = "driver" /\ d_pc = "ap_write"
    /\ ap_i <= Len(subscribers) /\ subscribers[ap_i] = "scoreboard"
    /\ LET r == check_transaction(heap[d_txn], passed, failed)
       IN passed' = r[1] /\ failed' = r[2]
    /\ sb_received' = sb_received + 1
    /\ ap_i' = ap_i + 1
    /\ UNCHANGED <<monVars, genVars, scn, phase, objection, cur, testVars, heap, seqrVars, d_pc,
                   d_ready, d_txn, reset_n, wait_cycles, cycles, dutVars, wr,
                   sb_raised, cov, produced, received, n_finished, n_done,
                   ap_writes, n_timeout, d_timed_out, d_txn0, w_edges>>

Bump(b) == IF b THEN 1 ELSE 0

\* GCDCoverage.write that returns at once for a transaction without a valid
\* result.
coverage_write_ValidOnly(c, t) ==
    IF ~t.outputValid THEN c
    ELSE [c EXCEPT !.total_transactions = c.total_transactions + 1]

\* GCDCoverage.write that counts the one bin once for each operand equal
\* to 1.
coverage_write_PerOperand(c, t) ==
    [total_transactions |-> c.total_transactions + 1,
     zero_cases |-> c.zero_cases + Bump(t.value1 = 0 \/ t.value2 = 0),
     one_cases |-> c.one_cases + Bump(t.value1 = 1) + Bump(t.value2 = 1),
     equal_cases |-> c.equal_cases + Bump(t.value1 = t.value2),
     coprime_cases |-> c.coprime_cases + Bump(t.outputGCD = 1),
     max_value_cases |-> c.max_value_cases
                         + Bump(t.value1 = MaxValue \/ t.value2 = MaxValue),
     power_of_two_cases |-> c.power_of_two_cases
                         + Bump(is_power_of_two(t.value1) \/ is_power_of_two(t.value2))]

\* GCDCoverage.write: the counters after one transaction.
coverage_write(c, t) ==
    [total_transactions |-> c.total_transactions + 1,
     zero_cases |-> c.zero_cases + Bump(t.value1 = 0 \/ t.value2 = 0),
     one_cases |-> c.one_cases + Bump(t.value1 = 1 \/ t.value2 = 1),
     equal_cases |-> c.equal_cases + Bump(t.value1 = t.value2),
     coprime_cases |-> c.coprime_cases + Bump(t.outputGCD = 1),
     max_value_cases |-> c.max_value_cases
                         + Bump(t.value1 = MaxValue \/ t.value2 = MaxValue),
     power_of_two_cases |-> c.power_of_two_cases
                         + Bump(is_power_of_two(t.value1) \/ is_power_of_two(t.value2))]

\* GCDCoverage.write that clears the load flag of the transaction it has
\* counted.
COV_write_ClearsLoad ==
    /\ cur = "driver" /\ d_pc = "ap_write"
    /\ ap_i <= Len(subscribers) /\ subscribers[ap_i] = "coverage"
    /\ cov' = coverage_write(cov, heap[d_txn])
    /\ ap_i' = ap_i + 1
    /\ heap' = [heap EXCEPT ![d_txn].loadingValues = FALSE]
    /\ UNCHANGED <<monVars, genVars, scn, phase, objection, cur, testVars, seqrVars, d_pc,
                   d_ready, d_txn, reset_n, wait_cycles, cycles, dutVars, wr,
                   passed, failed, sb_raised, histVars>>

\* GCDCoverage.write, called by the driver's analysis port after the
\* scoreboard's.
COV_write ==
    /\ cur = "driver" /\ d_pc = "ap_write"
    /\ ap_i <= Len(subscribers) /\ subscribers[ap_i] = "coverage"
    /\ cov' = coverage_write(cov, heap[d_txn])
    /\ ap_i' = ap_i + 1
    /\ UNCHANGED <<monVars, genVars, scn, phase, objection, cur, testVars, heap, seqrVars, d_pc,
                   d_ready, d_txn, reset_n, wait_cycles, cycles, dutVars, wr,
                   passed, failed, sb_raised, histVars>>

\* --------------------------------------------------------------- monitor

\* A step of the monitor reads only what the last edge has set (inp and the
\* design's outputs) and writes only the monitor's own variables, so it
\* commutes with the steps of the driver and of the test in the same time
\* step.  Of the tasks an edge resumes, the monitor is therefore run first
\* (the guard MonitorRanFirst of the others) in the runs with the order
\* "monitor_first"; the runs with the order "any" take every order.

\* GCDMonitor.run_phase enters its loop and awaits the first rising edge.
M_RunPhase ==
    /\ phase = "run" /\ cur = "none" /\ m_pc = "start"
    /\ m_pc' = "sample" /\ m_ready' = FALSE
    /\ UNCHANGED <<m_txn, m_cycles, m_edges, m_seen, m_published, m_last, m_dropped,
                   n_loads, genVars, scn, phase, objection, cur, testVars, heap,
                   seqrVars, drvVars, dutVars, wr, subVars, histVars>>

\* MonWaitCond with the bound compared by <= : one edge too many is awaited.
MonWaitCond_OffByOne(valid, c) == valid = 0 /\ c <= mon_max_cycles

\* while self.dut.io_outputValid.value == 0 and cycles < max_cycles
MonWaitCond(valid, c) == valid = 0 /\ c < mon_max_cycles

\* MonPublishes that lets a timed-out reconstruction through.
MonPublishes_Always(c) == TRUE

\* if cycles < max_cycles: capture and publish, else only a warning.
MonPublishes(c) == c < mon_max_cycles

\* MonEnd that also deasserts the load strobe when a reconstruction ends.
MonEnd_ClearsLoad(t, c) ==
    /\ IF MonPublishes(c)
         THEN /\ m_txn' = Capture(t, io_outputGCD, io_outputValid)
              /\ m_pc' = "publish" /\ cur' = "monitor"
              /\ m_dropped' = m_dropped
         ELSE /\ m_txn' = GCDTransaction
              /\ m_pc' = "sample" /\ cur' = "none"
              /\ m_dropped' = m_dropped + 1
    /\ m_cycles' = 0 /\ m_edges' = 0
    /\ wr' = [wr EXCEPT !.load = 0]

\* The end of one reconstruction, left with c edges counted: the outputs are
\* captured into the transaction, or it is dropped with a warning and the
\* loop awaits the next edge.
MonEnd(t, c) ==
    /\ IF MonPublishes(c)
         THEN /\ m_txn' = Capture(t, io_outputGCD, io_outputValid)
              /\ m_pc' = "publish" /\ cur' = "monitor"
              /\ m_dropped' = m_dropped
         ELSE /\ m_txn' = GCDTransaction
              /\ m_pc' = "sample" /\ cur' = "none"
              /\ m_dropped' = m_dropped + 1
    /\ m_cycles' = 0 /\ m_edges' = 0
    /\ wr' = wr

\* M_Sample that reads value1 from io_value2 and value2 from io_value1.
M_Sample_SwapInputs ==
    /\ phase = "run" /\ cur = "none" /\ m_pc = "sample" /\ m_ready
    /\ m_ready' = FALSE
    /\ IF inp.load = 1
         THEN LET txn == [GCDTransaction EXCEPT !.value1 = inp.v2,
                                                !.value2 = inp.v1,
                                                !.loadingValues = TRUE]
              IN /\ m_seen' = m_seen + 1
                 /\ m_last' = GCDTransaction
                 /\ IF MonWaitCond(io_outputValid, 0)
                      THEN /\ m_txn' = txn /\ m_pc' = "wait"
                           /\ m_cycles' = 0 /\ m_edges' = 0
                           /\ UNCHANGED <<m_dropped, wr, cur>>
                      ELSE MonEnd(txn, 0)
         ELSE UNCHANGED <<m_pc, m_txn, m_cycles, m_edges, m_seen, m_dropped,
                          m_last, wr, cur>>
    /\ UNCHANGED <<m_published, n_loads, genVars, scn, phase, objection, testVars,
                   heap, seqrVars, drvVars, dutVars, subVars, histVars>>

\* After an edge at the top of the loop: the load strobe is sampled; when it
\* is asserted a transaction is created from the inputs and the wait loop is
\* entered with cycles = 0.
M_Sample ==
    /\ phase = "run" /\ cur = "none" /\ m_pc = "sample" /\ m_ready
    /\ m_ready' = FALSE
    /\ IF inp.load = 1
         THEN LET txn == [GCDTransaction EXCEPT !.value1 = inp.v1,
                                                !.value2 = inp.v2,
                                                !.loadingValues = TRUE]
              IN /\ m_seen' = m_seen + 1
                 /\ m_last' = GCDTransaction
                 /\ IF MonWaitCond(io_outputValid, 0)
                      THEN /\ m_txn' = txn /\ m_pc' = "wait"
                           /\ m_cycles' = 0 /\ m_edges' = 0
                           /\ UNCHANGED <<m_dropped, wr, cur>>
                      ELSE MonEnd(txn, 0)
         ELSE UNCHANGED <<m_pc, m_txn, m_cycles, m_edges, m_seen, m_dropped,
                          m_last, wr, cur>>
    /\ UNCHANGED <<m_published, n_loads, genVars, scn, phase, objection, testVars,
                   heap, seqrVars, drvVars, dutVars, subVars, histVars>>

\* One awaited edge of the monitor's wait loop, then its condition again.
M_WaitResume ==
    /\ phase = "run" /\ cur = "none" /\ m_pc = "wait" /\ m_ready
    /\ m_ready' = FALSE
    /\ IF MonWaitCond(io_outputValid, m_cycles + 1)
         THEN /\ m_cycles' = m_cycles + 1
              /\ UNCHANGED <<m_pc, m_txn, m_edges, m_dropped, wr, cur>>
         ELSE MonEnd(m_txn, m_cycles + 1)
    /\ UNCHANGED <<m_seen, m_published, m_last, n_loads, genVars, scn, phase, objection,
                   testVars, heap, seqrVars, drvVars, dutVars, subVars, histVars>>

\* M_Publish with the monitor's analysis port connected to the scoreboard.
M_Publish_ToScoreboard ==
    /\ cur = "monitor" /\ m_pc = "publish"
    /\ m_published' = m_published + 1
    /\ m_last' = m_txn
    /\ m_txn' = GCDTransaction
    /\ m_pc' = "sample" /\ cur' = "none"
    /\ LET r == check_transaction(m_txn, passed, failed)
       IN passed' = r[1] /\ failed' = r[2]
    /\ UNCHANGED <<m_ready, m_cycles, m_edges, m_seen, m_dropped, n_loads,
                   genVars, scn, phase, objection, testVars, heap, seqrVars,
                   drvVars, dutVars, wr, sb_raised, cov, histVars>>

\* self.ap.write(txn): the monitor's analysis port has no subscriber, so the
\* call returns at once; the transaction is referenced by nothing afterwards
\* and the loop awaits the next edge.
M_Publish ==
    /\ cur = "monitor" /\ m_pc = "publish"
    /\ m_published' = m_published + 1
    /\ m_last' = m_txn
    /\ m_txn' = GCDTransaction
    /\ m_pc' = "sample" /\ cur' = "none"
    /\ UNCHANGED <<m_ready, m_cycles, m_edges, m_seen, m_dropped, n_loads,
                   genVars, scn, phase, objection, testVars, heap, seqrVars,
                   drvVars, dutVars, wr, subVars, histVars>>

\* ----------------------------------------------------------- end of run

\* The run phase ends when the test has dropped its objection.
R_EndRun ==
    /\ phase = "run" /\ cur = "none" /\ t_pc = "dropped" /\ objection = 0
    /\ phase' = "report"
    /\ UNCHANGED <<monVars, genVars, scn, objection, cur, testVars, heap, seqrVars, drvVars,
                   dutVars, wr, subVars, histVars>>

\* report_phase that also raises when no transaction was checked.
report_phase_ZeroFails(p, f) == f > 0 \/ p + f = 0

\* GCDScoreboard.report_phase: whether it raises.
report_phase(p, f) ==
    LET total == p + f
    IN IF total > 0 THEN f > 0 ELSE FALSE

SB_report_phase ==
    /\ phase = "report"
    /\ sb_raised' = report_phase(passed, failed)
    /\ phase' = IF sb_raised' THEN "fatal" ELSE "report_cov"
    /\ UNCHANGED <<monVars, genVars, scn, objection, cur, testVars, heap, seqrVars, drvVars,
                   dutVars, wr, passed, failed, cov, histVars>>

\* GCDCoverage.report_phase only logs the counters.
COV_report_phase ==
    /\ phase = "report_cov"
    /\ phase' = "done"
    /\ UNCHANGED <<monVars, genVars, scn, objection, cur, testVars, heap, seqrVars, drvVars,
                   dutVars, wr, subVars, histVars>>

\* ------------------------------------------------ the design and the clock

\* The registers of the subtraction-based design after one edge.
DutStep(load, v1, v2) ==
    IF load = 1 THEN <<v1, v2>>
    ELSE IF x > y THEN <<x - y, y>> ELSE <<x, y - x>>

\* The outputs (valid, gcd) the design may show after this edge: none
\* ("stuck"), those of its new registers ("correct"), those of its registers
\* before the edge, the new ones showing one edge later ("late"), or any.
DutOutputs(regs) ==
    CASE scn.dut = "stuck" -> {<<0, 0>>}
      [] scn.dut = "correct" -> {<<IF regs[2] = 0 THEN 1 ELSE 0, regs[1]>>}
      [] scn.dut = "late" -> {<<IF y = 0 THEN 1 ELSE 0, x>>}
      [] OTHER -> {<<0, 0>>} \cup {<<1, g>> : g \in {Gcd(wr.v1, wr.v2), 0, 1}}

\* A rising edge: no task can run any more in this time step.  The scheduled
\* writes are in effect, the design takes its step and every task awaiting
\* the edge is resumed.
Edge ==
    /\ phase = "run" /\ cur = "none" /\ ~Runnable
    /\ inp' = wr
    /\ LET regs == IF scn.dut \in {"correct", "late"}
                     THEN DutStep(wr.load, wr.v1, wr.v2)
                   ELSE <<x, y>>
       IN /\ x' = regs[1] /\ y' = regs[2]
          /\ \E o \in DutOutputs(regs) :
                io_outputValid' = o[1] /\ io_outputGCD' = o[2]
    /\ d_ready' = (d_pc \in {"reset_hold", "reset_last", "load", "drain", "wait"})
    /\ t_ready' = (t_pc = "drain")
    /\ m_ready' = (m_pc \in {"sample", "wait"})
    /\ w_edges' = IF d_pc = "wait" THEN w_edges + 1 ELSE w_edges
    /\ m_edges' = IF m_pc = "wait" THEN m_edges + 1 ELSE m_edges
    /\ n_loads' = IF wr.load = 1 THEN n_loads + 1 ELSE n_loads
    /\ UNCHANGED <<m_pc, m_txn, m_cycles, m_seen, m_published, m_last, m_dropped,
                   genVars, scn, phase, objection, cur, t_pc, s_i, s_txn, t_edges, heap,
                   seqrVars, d_pc, d_txn, reset_n, wait_cycles, cycles, ap_i, wr,
                   subVars, produced, received, n_finished, n_done, ap_writes,
                   n_timeout, d_timed_out, d_txn0, sb_received>>

\* ------------------------------------------------- coverage taken alone

\* A run that starts no sequence: the scenario of the specifications that
\* exercise one component alone.
NoRun == [seq |-> "RandomGCDSequence", n |-> 0, rng |-> "free", dut |-> "stuck",
           order |-> "monitor_first"]

\* Operand and result values handed to GCDCoverage.write taken alone.
CoverageValues == {0, 1, 17, 19, 256, 1024, 65535}

CoverageResults == {0, 1, 256}

\* Number of transactions GCDCoverage.write receives when taken alone.
CovMaxWrites == 2

CoverageInputs ==
    {[value1 |-> a, value2 |-> b, loadingValues |-> TRUE, outputGCD |-> g,
      outputValid |-> v] :
        a \in CoverageValues, b \in CoverageValues, g \in CoverageResults,
        v \in BOOLEAN}

CovInit ==
    /\ TestbenchInit /\ scn = NoRun
    /\ g_seq = "coverage" /\ g_i = 0 /\ g_pc = "idle" /\ g_txn = GCDTransaction

\* GCDCoverage.write(txn) for any transaction of CoverageInputs.
COV_receive ==
    /\ g_seq = "coverage" /\ g_i < CovMaxWrites
    /\ \E t \in CoverageInputs :
         /\ cov' = coverage_write(cov, t)
         /\ g_txn' = t
    /\ g_i' = g_i + 1
    /\ UNCHANGED <<monVars, g_seq, g_pc, scn, phase, objection, cur, testVars,
                   heap, seqrVars, drvVars, dutVars, wr, passed, failed,
                   sb_raised, histVars>>

CovNext == COV_receive

CovSpec == CovInit /\ [][CovNext]_vars

\* --------------------------------------- generation policies taken alone

\* Passes of the body loop explored for the policies with num_txns.
GenMaxTxns == 4

Policies ==
    {"RandomGCDSequence", "DirectedGCDSequence", "CornerCaseSequence",
     "BackToBackSequence"}

\* Outcomes of random.random(), in thousandths, on both sides of the
\* thresholds 0.7 and 0.8.
RandomOutcomes == {0, 699, 700, 799, 800, 999}

\* Outcomes of random.randint(lo, hi), both ends included: the ends, their
\* neighbours and the middle.
Randint(lo, hi) == {lo, lo + 1, (lo + hi) \div 2, hi - 1, hi} \cap (lo..hi)

\* randomize whose first tier draws from 0..10000.
randomize_FromZero(t) ==
    {[t EXCEPT !.value1 = a, !.value2 = b, !.loadingValues = TRUE] :
        a \in Randint(0, 10000), b \in Randint(0, 10000)}

\* randomize whose third tier draws its multipliers from 1..4.
randomize_WideMultiplier(t) ==
    LET tier1 == {[t EXCEPT !.value1 = a, !.value2 = b, !.loadingValues = TRUE] :
                     a \in Randint(1, 10000), b \in Randint(1, 10000)}
        tier3 == UNION {{[t EXCEPT !.value1 = base * m1, !.value2 = base * m2,
                                   !.loadingValues = TRUE] :
                            m1 \in Randint(1, 4), m2 \in Randint(1, 4)} :
                        base \in Randint(1, 20000)}
    IN tier1 \cup tier3

\* GCDTransaction.randomize: every transaction it can leave in t.  The
\* second random() is drawn only when the first is not below 0.7.
randomize(t) ==
    LET tier1 == {[t EXCEPT !.value1 = a, !.value2 = b, !.loadingValues = TRUE] :
                     a \in Randint(1, 10000), b \in Randint(1, 10000)}
        tier2 == {[t EXCEPT !.value1 = a, !.value2 = b, !.loadingValues = TRUE] :
                     a \in Randint(1, 1000), b \in Randint(1, 1000)}
        tier3 == UNION {{[t EXCEPT !.value1 = base * m1, !.value2 = base * m2,
                                   !.loadingValues = TRUE] :
                            m1 \in Randint(1, 3), m2 \in Randint(1, 3)} :
                        base \in Randint(1, 20000)}
    IN UNION {IF u1 < 700 THEN tier1
              ELSE UNION {IF u2 < 800 THEN tier2 ELSE tier3 :
                            u2 \in RandomOutcomes} :
                u1 \in RandomOutcomes}

\* A transaction with the two fields of a literal pair and load set.
Literal(p) ==
    [GCDTransaction EXCEPT !.value1 = p[1], !.value2 = p[2],
                           !.loadingValues = TRUE]

GenInit ==
    /\ TestbenchInit /\ scn = NoRun
    /\ g_seq \in Policies /\ g_i = 0 /\ g_pc = "body" /\ g_txn = GCDTransaction

\* What a pass of a body leaves unchanged: everything but its transaction.
GenFrame ==
    UNCHANGED <<monVars, g_seq, scn, phase, objection, cur, testVars, heap,
                seqrVars, drvVars, dutVars, wr, subVars, histVars>>

\* One pass of RandomGCDSequence.body up to start_item.
G_Random ==
    /\ g_seq = "RandomGCDSequence" /\ g_pc = "body" /\ g_i < GenMaxTxns
    /\ g_txn' \in randomize(GCDTransaction)
    /\ g_i' = g_i + 1 /\ g_pc' = "sent"
    /\ GenFrame

\* One pass of DirectedGCDSequence.body up to start_item.
G_Directed ==
    /\ g_seq = "DirectedGCDSequence" /\ g_pc = "body" /\ g_i < Len(DirectedCases)
    /\ g_txn' = Literal(DirectedCases[g_i + 1])
    /\ g_i' = g_i + 1 /\ g_pc' = "sent"
    /\ GenFrame

\* One pass of CornerCaseSequence.body up to start_item.
G_Corner ==
    /\ g_seq = "CornerCaseSequence" /\ g_pc = "body" /\ g_i < Len(CornerCases)
    /\ g_txn' = Literal(CornerCases[g_i + 1])
    /\ g_i' = g_i + 1 /\ g_pc' = "sent"
    /\ GenFrame

\* G_BackToBack that takes the quick branch on every second pass.
G_BackToBack_EverySecond ==
    /\ g_seq = "BackToBackSequence" /\ g_pc = "body" /\ g_i < GenMaxTxns
    /\ IF g_i % 2 = 0
         THEN \E a \in Randint(1, 100), b \in Randint(1, 100) :
                g_txn' = [GCDTransaction EXCEPT !.value1 = a, !.value2 = b]
         ELSE g_txn' \in randomize(GCDTransaction)
    /\ g_i' = g_i + 1 /\ g_pc' = "sent"
    /\ GenFrame

\* One pass of BackToBackSequence.body up to start_item: the quick branch
\* sets the two values only, the other branch calls randomize.
G_BackToBack ==
    /\ g_seq = "BackToBackSequence" /\ g_pc = "body" /\ g_i < GenMaxTxns
    /\ IF g_i % 3 = 0
         THEN \E a \in Randint(1, 100), b \in Randint(1, 100) :
                g_txn' = [GCDTransaction EXCEPT !.value1 = a, !.value2 = b]
         ELSE g_txn' \in randomize(GCDTransaction)
    /\ g_i' = g_i + 1 /\ g_pc' = "sent"
    /\ GenFrame

\* The transaction comes back from the driver, which has published it with a
\* captured result or after a timeout, and the coverage has counted it;
\* finish_item returns and the body goes to its next pass.
G_Published ==
    /\ g_pc = "sent"
    /\ \E t \in {Capture(g_txn, Gcd(g_txn.value1, g_txn.value2), 1),
                 DriveResult(g_txn, max_cycles, 0, 0)} :
         cov' = coverage_write(cov, t)
    /\ g_pc' = "body"
    /\ UNCHANGED <<monVars, g_seq, g_i, g_txn, scn, phase, objection, cur,
                   testVars, heap, seqrVars, drvVars, dutVars, wr, passed, failed,
                   sb_raised, histVars>>

GenNext == G_Random \/ G_Directed \/ G_Corner \/ G_BackToBack \/ G_Published

GenSpec == GenInit /\ [][GenNext]_vars

\* --------------------------------------- transaction equality taken alone

\* Field assignments made to the two objects before they are compared.
EqMaxWrites == 3

\* Names given to the transactions constructed.
EqNames == {"txn_0", "monitored_txn"}

\* Values assigned to the integer fields.
EqValues == {0, 6}

\* GCDTransaction(name): an object of the class with the name and the
\* fields __init__ sets.
NewTransaction(name) ==
    [kind |-> "GCDTransaction", name |-> name, txn |-> GCDTransaction]

\* Objects that are not transactions: None and an integer.
OtherObjects ==
    {[kind |-> "NoneType", name |-> "None", txn |-> GCDTransaction],
     [kind |-> "int", name |-> "6", txn |-> GCDTransaction]}

\* self == other: not isinstance(other, GCDTransaction) gives False, else
\* the four fields are compared.
GCDTransaction_eq(self, other) ==
    IF other.kind # "GCDTransaction" THEN FALSE
    ELSE TransactionEq(self.txn, other.txn)

\* The objects of the class among the two operands.
EqOperands == {o \in {g_txn, m_txn} : o.kind = "GCDTransaction"}

\* One field of a transaction assigned.
WithField(o, f, v) ==
    CASE f = "value1" -> [o EXCEPT !.txn.value1 = v]
      [] f = "value2" -> [o EXCEPT !.txn.value2 = v]
      [] f = "outputGCD" -> [o EXCEPT !.txn.outputGCD = v]
      [] f = "loadingValues" -> [o EXCEPT !.txn.loadingValues = (v # 0)]
      [] OTHER -> [o EXCEPT !.txn.outputValid = (v # 0)]

EqFields == {"value1", "value2", "outputGCD", "loadingValues", "outputValid"}

EqInit ==
    /\ scn = NoRun /\ TestbenchStart
    /\ g_seq = "equality" /\ g_i = 0 /\ g_pc = "new"
    /\ g_txn = GCDTransaction

\* What the steps on the two operands leave unchanged.
EqFrame ==
    UNCHANGED <<m_pc, m_ready, m_cycles, m_edges, m_seen, m_published, m_last,
                m_dropped, n_loads, g_seq, scn, phase, objection, cur,
                testVars, heap, seqrVars, drvVars, dutVars, wr, subVars,
                histVars>>

\* The left operand is constructed, and the right one, which is a
\* transaction or another object.
EQ_New ==
    /\ g_seq = "equality" /\ g_pc = "new"
    /\ \E n \in EqNames : g_txn' = NewTransaction(n)
    /\ \/ \E n \in EqNames : m_txn' = NewTransaction(n)
       \/ m_txn' \in OtherObjects
    /\ g_pc' = "fill" /\ g_i' = 0
    /\ EqFrame

\* A field of one of the transactions is assigned.
EQ_Set ==
    /\ g_seq = "equality" /\ g_pc = "fill" /\ g_i < EqMaxWrites
    /\ \E f \in EqFields, v \in EqValues :
          \/ g_txn' = WithField(g_txn, f, v) /\ m_txn' = m_txn
          \/ /\ m_txn.kind = "GCDTransaction"
             /\ m_txn' = WithField(m_txn, f, v) /\ g_txn' = g_txn
    /\ g_i' = g_i + 1 /\ g_pc' = "fill"
    /\ EqFrame

\* The two operands are compared with ==.
EQ_Compare ==
    /\ g_seq = "equality" /\ g_pc = "fill"
    /\ g_pc' = IF GCDTransaction_eq(g_txn, m_txn) THEN "equal" ELSE "unequal"
    /\ UNCHANGED <<g_i, g_txn, m_txn>>
    /\ EqFrame

EqNext == EQ_New \/ EQ_Set \/ EQ_Compare

EqSpec == EqInit /\ [][EqNext]_vars

\* ------------------------------------------------------- specification

Next ==
    \/ T_RunPhase \/ T_StartSequence \/ S_StartItem \/ S_FinishItem
    \/ S_FinishItemReturn \/ T_SequenceDone \/ T_Drain
    \/ D_Reset \/ D_ResetHold \/ D_ResetDone \/ D_GetNextItem \/ D_Drive
    \/ D_Deassert \/ D_DrainResume \/ D_WaitResume \/ D_Result \/ D_Publish
    \/ SB_write \/ COV_write \/ D_PublishReturn \/ D_ItemDone
    \/ M_RunPhase \/ M_Sample \/ M_WaitResume \/ M_Publish
    \/ R_EndRun \/ SB_report_phase \/ COV_report_phase
    \/ Edge

Spec == Init /\ [][Next]_vars

\* The runs in which the tasks an edge resumes are run in every order: the
\* directed list and the fixed vector, against designs with one fixed
\* response at every edge.
OrderScenarios ==
    {[seq |-> "DirectedGCDSequence", n |-> Len(DirectedCases), rng |-> "none",
      dut |-> d, order |-> "any"] : d \in {"correct", "stuck", "late"}}
    \cup {[seq |-> "RandomGCDSequence", n |-> Len(VectorCases), rng |-> "vector",
           dut |-> d, order |-> "any"] : d \in {"correct", "late"}}

OrderInit ==
    /\ scn \in OrderScenarios /\ TestbenchStart
    /\ g_seq = "none" /\ g_i = 0 /\ g_pc = "idle" /\ g_txn = GCDTransaction

OrderSpec == OrderInit /\ [][Next]_vars

\* The simulator keeps producing clock edges for as long as the run phase
\* lasts and the scheduler runs every task that can be resumed, so a step is
\* taken whenever one is possible.
FairSpec == Spec /\ WF_vars(Next)

\* ------------------------------------------------------------- claims

IsPrefix(a, b) ==
    /\ Len(a) <= Len(b)
    /\ \A k \in 1..Len(a) : a[k] = b[k]

NoDuplicates(a) == \A j, k \in 1..Len(a) : j # k => a[j] # a[k]

\* The sequence body has run through all its passes.
SequenceOver == t_pc \in {"drain", "dropped"}

\* C1: the transactions get_next_item has returned to the driver are, in
\* order, the transactions the sequence has produced: at every moment a
\* prefix without repetition that lacks at most the newest one, and the whole
\* list of scn.n transactions once the sequence is over.
C1_PullOrderIsProductionOrder ==
    /\ IsPrefix(received, produced)
    /\ NoDuplicates(received)
    /\ Len(produced) - Len(received) <= 1
    /\ SequenceOver => received = produced /\ Len(received) = scn.n

C1_Witness ==
    /\ scn.seq = "DirectedGCDSequence" /\ SequenceOver
    /\ Len(received) = Len(DirectedCases)

\* C2: the items returned by get_next_item minus the item_done calls is 0 or
\* 1 in every state, and whenever get_next_item returns a further item the
\* item_done calls already equal the items returned before it.
C2_AtMostOneInFlight ==
    /\ [](Len(received) - n_done \in {0, 1})
    /\ [][Len(received') = Len(received) + 1 => n_done = Len(received)]_vars

C2_Witness == Len(received) = 2 /\ n_done = 1 /\ d_pc = "wait"

\* C3: the sequence constructs transaction k+1 only after finish_item for k
\* has returned, finish_item for k returns only after item_done for k, and
\* so the transactions produced exceed the driver's completions by at most 1.
C3_SequenceWaitsForDone ==
    /\ [](/\ Len(produced) - n_finished \in {0, 1}
          /\ n_finished <= n_done
          /\ Len(produced) - n_done \in {0, 1})
    /\ [][Len(produced') > Len(produced) => n_finished = Len(produced)]_vars
    /\ [][n_finished' > n_finished => n_done > n_finished]_vars

C3_Witness == Len(produced) = 2 /\ n_finished = 1 /\ n_done = 1

\* C4: with a design that never asserts result-valid the wait phase never
\* awaits more than max_cycles edges, ends after exactly max_cycles edges
\* with a logged timeout, the transaction is published with
\* outputValid = FALSE, and when the driver is back at get_next_item every
\* pulled item has been published and completed by item_done.
C4_TimeoutAfterMaxCycles ==
    scn.dut = "stuck" =>
        /\ d_pc = "wait" =>
              /\ cycles < max_cycles
              /\ w_edges = cycles + (IF d_ready THEN 1 ELSE 0)
        /\ d_pc = "result" => w_edges = max_cycles /\ cycles = max_cycles
        /\ d_pc \in {"publish", "ap_write", "item_done"} =>
              d_timed_out /\ heap[d_txn].outputValid = FALSE
        /\ n_timeout = ap_writes + (IF d_pc = "publish" THEN 1 ELSE 0)
        /\ d_pc = "get" => n_done = Len(received) /\ ap_writes = Len(received)

C4_Witness ==
    /\ scn.dut = "stuck" /\ d_pc = "get"
    /\ n_timeout = 1 /\ ap_writes = 1 /\ n_done = 1

\* C5: after a timeout in the wait phase the transaction is exactly what it
\* was when the driver pulled it: value1, value2 and loadingValues as
\* produced, outputGCD = 0 and outputValid = FALSE.
C5_TimeoutLeavesTransaction ==
    d_timed_out =>
        /\ heap[d_txn] = d_txn0
        /\ heap[d_txn].outputGCD = 0
        /\ heap[d_txn].outputValid = FALSE

\* The timeout case in which the design does show a result at the last edge.
C5_Witness ==
    /\ d_timed_out /\ d_pc = "publish"
    /\ io_outputValid = 1 /\ io_outputGCD > 0

\* C6: every pulled transaction is written to the driver's analysis port
\* exactly once, after drive_transaction has ended and before item_done:
\* while it is driven the writes are one behind the pulls, from the write on
\* they are equal, and they are equal at every item_done.
C6_PublishedOncePerPull ==
    /\ [](/\ d_pc \in {"drive", "load", "drain", "wait", "result", "publish"} =>
                ap_writes = Len(received) - 1
          /\ d_pc \in {"start", "reset_hold", "reset_last", "get", "ap_write",
                       "item_done"} => ap_writes = Len(received)
          /\ n_done = ap_writes - (IF d_pc \in {"ap_write", "item_done"} THEN 1 ELSE 0))
    /\ [][ap_writes' # ap_writes =>
             d_pc = "publish" /\ ap_writes' = ap_writes + 1]_vars
    /\ [][n_done' # n_done =>
             d_pc = "item_done" /\ ap_i = 0 /\ ap_writes = Len(received)]_vars

C6_Witness == d_pc = "item_done" /\ d_timed_out /\ ap_writes = 2

CommonDivisors(a, b) ==
    {d \in 1..(IF a < b THEN a ELSE b) : a % d = 0 /\ b % d = 0}

\* The greatest common divisor by its definition (for 0, the other operand).
GreatestCommonDivisor(a, b) ==
    IF a = 0 THEN b
    ELSE IF b = 0 THEN a
    ELSE CHOOSE m \in CommonDivisors(a, b) : \A e \in CommonDivisors(a, b) : e <= m

\* C7: each transaction the scoreboard receives moves exactly one counter by
\* exactly 1: passed when outputGCD is the greatest common divisor of value1
\* and value2 and outputValid is true, failed otherwise; and the counters
\* change at no other step.
C7_ScoreboardCountsOne ==
    /\ [][sb_received' = sb_received + 1 =>
            LET t == heap[d_txn]
                expected == GreatestCommonDivisor(t.value1, t.value2)
            IN IF t.outputGCD = expected /\ t.outputValid
                 THEN passed' = passed + 1 /\ failed' = failed
                 ELSE failed' = failed + 1 /\ passed' = passed]_vars
    /\ [][passed' # passed \/ failed' # failed =>
            sb_received' = sb_received + 1]_vars

C7_Witness == passed = 1 /\ failed = 1

\* C8: passed + failed is the number of transactions the scoreboard has
\* received, and neither counter ever decreases.
C8_CountersSumToReceived ==
    /\ [](passed + failed = sb_received)
    /\ [][passed' >= passed /\ failed' >= failed]_vars

C8_Witness == sb_received = 2 /\ failed = 2

\* C9: the scoreboard's report raises exactly when failed > 0; with nothing
\* checked at all it does not raise.
C9_ReportRaisesIffFailed ==
    /\ phase \in {"report_cov", "done", "fatal"} =>
          /\ sb_raised <=> failed > 0
          /\ phase = "fatal" <=> sb_raised
          /\ passed + failed = 0 => ~sb_raised
    /\ phase \in {"run", "report"} => ~sb_raised

C9_Witness == phase = "fatal" /\ failed > 0 /\ passed > 0

VectorExpected == <<6, 1, 100, 21, 256>>

\* C10: in the run over the five pairs against the design that computes the
\* gcd, every transaction is published with outputValid true and outputGCD
\* equal to math.gcd of its inputs, which is 6, 1, 100, 21 and 256 in turn,
\* nothing ever fails, and the run ends with passed = 5 and failed = 0.
C10_DirectedVectorPasses ==
    scn.rng = "vector" =>
        /\ d_pc \in {"publish", "ap_write", "item_done"} =>
              LET t == heap[d_txn]
                  e == VectorExpected[Len(received)]
              IN /\ <<t.value1, t.value2>> = VectorCases[Len(received)]
                 /\ Gcd(t.value1, t.value2) = e
                 /\ t.outputGCD = e /\ t.outputValid
        /\ failed = 0
        /\ SequenceOver \/ phase # "run" => passed = 5 /\ failed = 0

C10_Witness == scn.rng = "vector" /\ phase = "done" /\ passed = 5 /\ failed = 0

\* The counter new is old plus one exactly when cond holds.
CountsIff(old, new, cond) == new = old + (IF cond THEN 1 ELSE 0)

PowersOfTwo == {2^k : k \in 0..15}

\* C11: every transaction GCDCoverage.write receives adds exactly 1 to
\* total_transactions and adds 1 to a bin exactly when the bin's predicate
\* holds: zero (an input is 0), one (an input is 1), equal, coprime (the
\* captured result is 1), max (an input is 65535), power of two (an input is
\* 2^k).  So (17, 19) with result 1 counts as coprime and as neither zero nor
\* equal, and (256, 1024) counts as power of two.
C11_CoverageBins ==
    [][cov' # cov =>
        LET t == g_txn' IN
        /\ cov'.total_transactions = cov.total_transactions + 1
        /\ CountsIff(cov.zero_cases, cov'.zero_cases,
                     t.value1 = 0 \/ t.value2 = 0)
        /\ CountsIff(cov.one_cases, cov'.one_cases,
                     t.value1 = 1 \/ t.value2 = 1)
        /\ CountsIff(cov.equal_cases, cov'.equal_cases, t.value1 = t.value2)
        /\ CountsIff(cov.coprime_cases, cov'.coprime_cases, t.outputGCD = 1)
        /\ CountsIff(cov.max_value_cases, cov'.max_value_cases,
                     t.value1 = 65535 \/ t.value2 = 65535)
        /\ CountsIff(cov.power_of_two_cases, cov'.power_of_two_cases,
                     t.value1 \in PowersOfTwo \/ t.value2 \in PowersOfTwo)
        /\ (t.value1 = 17 /\ t.value2 = 19 /\ t.outputGCD = 1 =>
              /\ cov'.coprime_cases = cov.coprime_cases + 1
              /\ cov'.zero_cases = cov.zero_cases
              /\ cov'.equal_cases = cov.equal_cases)
        /\ (t.value1 = 256 /\ t.value2 = 1024 =>
              cov'.power_of_two_cases = cov.power_of_two_cases + 1)
    ]_vars

C11_Witness ==
    /\ g_seq = "coverage" /\ g_i = 2
    /\ g_txn.value1 = 256 /\ g_txn.value2 = 1024
    /\ cov.total_transactions = 2
    /\ cov.power_of_two_cases = 1 /\ cov.coprime_cases = 1
    /\ cov.zero_cases = 0 /\ cov.equal_cases = 0

\* C12: whenever the driver is not inside a call of its analysis port (every
\* publish so far has returned), the scoreboard's passed + failed, the
\* coverage's total_transactions and the number of publishes are equal.
C12_SubscriberCountsAgree ==
    d_pc # "ap_write" =>
        /\ passed + failed = ap_writes
        /\ cov.total_transactions = ap_writes

C12_Witness ==
    /\ d_pc = "item_done" /\ ap_writes = 2
    /\ passed = 1 /\ failed = 1 /\ cov.total_transactions = 2

\* C13: within one publish the scoreboard receives the transaction first and
\* the coverage second, both while the publish is in progress; when the
\* publish returns, when item_done is signalled and when a later transaction
\* is pulled, both have received every transaction published so far.
C13_ScoreboardThenCoverage ==
    /\ [][sb_received' # sb_received =>
            /\ d_pc = "ap_write" /\ sb_received' = ap_writes
            /\ cov.total_transactions = ap_writes - 1]_vars
    /\ [][cov'.total_transactions # cov.total_transactions =>
            /\ d_pc = "ap_write" /\ cov'.total_transactions = ap_writes
            /\ sb_received = ap_writes]_vars
    /\ [][(d_pc = "ap_write" /\ d_pc' # "ap_write") \/ n_done' # n_done
              \/ received' # received =>
            /\ sb_received = ap_writes
            /\ cov.total_transactions = ap_writes]_vars
    /\ [][received' # received => ap_writes = Len(received)]_vars

C13_Witness ==
    /\ d_pc = "ap_write" /\ ap_writes = 2
    /\ sb_received = 2 /\ cov.total_transactions = 1

\* C14: the monitor's wait for a result awaits at most 1000 edges; a
\* reconstruction whose wait has used up all 1000 edges is dropped (counted
\* as dropped, not published, the monitor back at its sampling point) and
\* leaves the number of published transactions unchanged; what the monitor
\* publishes was captured before the bound, with the valid flag observed.
C14_MonitorDropsTimeouts ==
    /\ [](m_edges <= 1000)
    /\ [][m_pc = "wait" /\ m_pc' # "wait" /\ m_edges >= 1000 =>
            /\ m_pc' = "sample"
            /\ m_dropped' = m_dropped + 1
            /\ m_published' = m_published]_vars
    /\ [][m_dropped' # m_dropped => m_published' = m_published /\ m_pc' = "sample"]_vars
    /\ [][m_pc # "publish" /\ m_pc' = "publish" =>
            /\ m_edges < 1000 /\ io_outputValid = 1
            /\ m_txn'.outputValid /\ m_txn'.outputGCD = io_outputGCD]_vars
    /\ [][m_published' # m_published =>
            /\ m_pc = "publish" /\ m_txn.outputValid
            /\ m_published' = m_published + 1]_vars

C14_Witness ==
    /\ m_seen = 2 /\ m_published = 1 /\ m_dropped = 1 /\ m_pc = "sample"

\* A step taken by the monitor: it leaves one of its positions, or it
\* consumes the resumption an edge gave it.
MonitorStep == m_pc' # m_pc \/ (m_ready /\ ~m_ready')

\* A step taken by the driver.
DriverStep == d_pc' # d_pc \/ (d_ready /\ ~d_ready')

\* C15: the monitor is passive.  No step of the monitor changes the values
\* written to reset, load, value1 and value2, the sequencer's state, or a
\* transaction handled by the driver; the stimulus changes only in steps of
\* the driver, which are never steps of the monitor.
C15_MonitorIsPassive ==
    /\ [][MonitorStep =>
            /\ wr' = wr /\ inp' = inp
            /\ req_q' = req_q /\ current_item' = current_item
            /\ start_condition' = start_condition
            /\ finish_condition' = finish_condition
            /\ heap' = heap /\ d_txn' = d_txn]_vars
    /\ [][wr' # wr => DriverStep /\ ~MonitorStep]_vars

C15_Witness ==
    /\ m_pc = "publish" /\ wr.load = 1 /\ d_pc = "load"
    /\ Len(received) = 2 /\ current_item = 2

\* A rising edge: the step that resumes the monitor.
EdgeStep == ~m_ready /\ m_ready'

\* The reconstruction the monitor is in the middle of, if any.
MonInProgress == IF m_pc \in {"wait", "publish"} THEN 1 ELSE 0

\* C16: the monitor misses no load strobe.  At every rising edge at which
\* load is asserted the monitor is at its load-sampling point, not in its
\* wait loop, and it samples the strobe in the time step that follows; so at
\* every edge the transactions it has published or dropped, plus the one it
\* is waiting on, are the loads driven so far, and between two transactions
\* of the driver and at the end of the run they are as many as the driver
\* has driven.  This holds for a correct, a stuck and an arbitrary design.
C16_MonitorSeesEveryLoad ==
    /\ [][EdgeStep /\ wr.load = 1 => m_pc = "sample"]_vars
    /\ [](m_seen = n_loads - (IF m_ready /\ m_pc = "sample" /\ inp.load = 1
                                THEN 1 ELSE 0))
    /\ [](m_published + m_dropped + MonInProgress = m_seen)
    /\ [][EdgeStep =>
            /\ n_loads' = Len(received)
            /\ d_pc = "get" =>
                 m_pc = "sample" /\ m_published + m_dropped = Len(received)]_vars
    /\ [](phase # "run" =>
            m_published + m_dropped = Len(received) /\ n_loads = Len(received))

C16_Witness ==
    /\ m_ready /\ inp.load = 1 /\ m_pc = "sample"
    /\ n_loads = 2 /\ m_seen = 1 /\ m_dropped = 1 /\ scn.dut = "stuck"

\* The transaction with the driver has ended its drive in a timeout or with
\* a result the scoreboard counts as failed.
ErrorNow ==
    \/ d_pc = "result" /\ cycles >= 1000
    \/ /\ d_pc \in {"publish", "ap_write", "item_done"}
       /\ \/ d_timed_out
          \/ ~heap[d_txn].outputValid
          \/ heap[d_txn].outputGCD
               # GreatestCommonDivisor(heap[d_txn].value1, heap[d_txn].value2)

\* The driver is between two transactions: item_done has been signalled for
\* every transaction it has pulled.
BetweenTransactions == d_pc = "get" /\ n_done = Len(received)

\* C17: an error on one transaction does not block the next ones.  After a
\* driver timeout or a scoreboard mismatch on a transaction the driver
\* signals item_done for it; and once an error has been counted, whenever
\* the driver is between two transactions and the sequence has more, the
\* driver eventually reaches item_done of a further transaction, which it
\* has by then pulled, driven and published.
C17_ErrorDoesNotBlock ==
    /\ ErrorNow ~> BetweenTransactions
    /\ (BetweenTransactions /\ failed > 0 /\ Len(received) < scn.n) ~>
          (d_pc = "item_done" /\ n_done = Len(received) - 1)
    /\ [](d_pc = "item_done" =>
            /\ n_loads = Len(received) /\ ap_writes = Len(received)
            /\ passed + failed = Len(received))

C17_Witness ==
    /\ Len(received) = 2 /\ ap_writes = 2 /\ n_loads = 2 /\ n_done = 1
    /\ failed >= 1 /\ n_timeout = 1 /\ d_pc = "item_done"

\* The driver holds a transaction it has pulled and not yet completed.
InFlight == Len(received) > n_done

\* C18: a driven transaction completes within 1 + 10 + 1000 rising edges of
\* its load being asserted, whatever the design does.  While a transaction
\* is in flight every edge finds the driver at one of three awaits, which it
\* passes in the order load, drain loop, wait loop without going back; the
\* load await takes one edge, the drain loop at most 10 and the wait loop at
\* most 1000.  As long as edges keep occurring the transaction reaches
\* item_done, and a run over a finite sequence drops its objection and ends.
C18_BoundedCompletion ==
    /\ [][EdgeStep /\ InFlight => d_pc \in {"load", "drain", "wait"} /\ ~d_ready]_vars
    /\ [][d_pc = "load" /\ d_ready /\ ~d_ready' =>
            d_pc' \in {"drain", "wait", "result"}]_vars
    /\ [][d_pc = "drain" /\ d_pc' # d_pc => d_pc' \in {"wait", "result"}]_vars
    /\ [][d_pc = "wait" /\ d_pc' # d_pc => d_pc' = "result"]_vars
    /\ [][d_pc = "drain" /\ d_pc' = "drain" /\ d_ready /\ ~d_ready' =>
            wait_cycles' = wait_cycles + 1]_vars
    /\ [](d_pc = "drain" => wait_cycles + (IF d_ready THEN 1 ELSE 0) <= 10)
    /\ [](w_edges <= 1000)
    /\ [](d_pc \in {"result", "publish", "ap_write", "item_done"} => cur = "driver")
    /\ (d_pc = "load") ~> BetweenTransactions
    /\ <>(t_pc = "dropped" /\ objection = 0 /\ phase # "run")

C18_Witness ==
    /\ phase = "fatal" /\ scn.dut = "arbitrary" /\ scn.n = 2
    /\ n_done = 2 /\ n_timeout = 2 /\ objection = 0

\* C19: no generation policy (directed, random, corner-case, back-to-back)
\* produces a transaction with value1 = 0 or value2 = 0, and the coverage's
\* zero_cases bin stays 0.
C19_NoZeroOperand ==
    /\ g_i > 0 => g_txn.value1 # 0 /\ g_txn.value2 # 0
    /\ cov.zero_cases = 0

C19_Witness ==
    /\ g_seq = "BackToBackSequence" /\ g_i = 4 /\ g_pc = "body"
    /\ g_txn.value1 = 1 /\ g_txn.value2 = 1
    /\ cov.total_transactions = 4 /\ cov.one_cases = 4

RECURSIVE SubtractSteps(_, _)
\* The number of subtractions until an operand is 0 when the smaller operand
\* is subtracted from the larger again and again: a \div b of them bring a
\* down to a % b.
SubtractSteps(a, b) ==
    IF a = 0 \/ b = 0 THEN 0
    ELSE IF a >= b THEN (a \div b) + SubtractSteps(a % b, b)
    ELSE (b \div a) + SubtractSteps(a, b % a)

\* C20: every operand pair a generation policy produces takes fewer than 1000
\* subtraction steps, the driver's wait budget.
C20_StepsBelowBudget ==
    g_i > 0 => SubtractSteps(g_txn.value1, g_txn.value2) < 1000

\* The number of transactions the sequence of each supplied test produces.
TestTxns ==
    CASE scn.seq = "DirectedGCDSequence" -> 9
      [] scn.seq = "CornerCaseSequence" -> 5
      [] scn.rng = "cycle" -> 100
      [] OTHER -> scn.n

\* C21: the objection is raised before the sequence starts and is held while
\* the body runs and while the test awaits its drain edges; it is dropped
\* only after the last finish_item has returned and 10 drain edges have
\* passed, and from then on the scoreboard's passed + failed and the
\* coverage's total_transactions both equal the transactions the sequence
\* produced: 9 for the directed test, 5 for the corner-case test, 100 for
\* the random test.
C21_ObjectionGatesTheRun ==
    /\ t_pc \in {"timer", "body", "start_item", "finish_item", "drain"} =>
          objection = 1 /\ phase = "run"
    /\ t_pc = "start" => Len(produced) = 0 /\ objection = 0
    /\ t_pc = "dropped" =>
          /\ objection = 0
          /\ scn.seq # "FullTest" => t_edges = 10
          /\ Len(produced) = TestTxns /\ n_finished = TestTxns
          /\ passed + failed = TestTxns
          /\ cov.total_transactions = TestTxns

C21_Witness ==
    /\ t_pc = "dropped" /\ scn.rng = "cycle" /\ phase = "run"
    /\ passed = 100 /\ cov.total_transactions = 100

\* C22: the driver's reset protocol runs once, before any item is pulled.
\* Reset is asserted only with load, value1 and value2 at 0 and only while
\* the driver holds it; the edges that see it asserted are the first 5 the
\* driver awaits, after the fifth it is deasserted, a sixth edge is awaited
\* with reset deasserted, and only then is get_next_item called.
C22_ResetProtocol ==
    /\ [](wr.reset = 1 =>
            d_pc = "reset_hold" /\ wr.load = 0 /\ wr.v1 = 0 /\ wr.v2 = 0)
    /\ [](inp.reset = 1 => inp.load = 0 /\ inp.v1 = 0 /\ inp.v2 = 0)
    /\ [](d_pc \in {"start", "reset_hold", "reset_last"} => Len(received) = 0)
    /\ [][EdgeStep /\ wr.reset = 1 => ~d_ready /\ reset_n < 5]_vars
    /\ [][d_pc = "reset_hold" /\ d_ready /\ ~d_ready' =>
            /\ reset_n' = reset_n + 1
            /\ IF reset_n' = 5
                 THEN d_pc' = "reset_last" /\ wr'.reset = 0
                 ELSE d_pc' = "reset_hold" /\ wr'.reset = 1]_vars
    /\ [][reset_n' # reset_n =>
            d_pc = "reset_hold" /\ d_ready /\ ~d_ready']_vars
    /\ [][d_pc = "reset_last" /\ d_pc' # d_pc =>
            d_ready /\ reset_n = 5 /\ inp.reset = 0 /\ d_pc' = "get"]_vars
    /\ [][d_pc' = "reset_hold" => d_pc \in {"start", "reset_hold"}]_vars
    /\ [][received' # received => reset_n = 5 /\ inp.reset = 0 /\ wr.reset = 0]_vars

C22_Witness ==
    /\ d_pc = "reset_last" /\ d_ready /\ reset_n = 5
    /\ inp.reset = 0 /\ wr.reset = 0 /\ Len(received) = 0 /\ req_q # << >>

\* C23: the driver reports a timeout only when result-valid was never seen
\* asserted in its wait phase.  Whenever the wait loop ends with the flag
\* asserted, at any of its awaited edges, the 1000th included, the driver
\* goes on to publish a transaction that holds the design's output and
\* outputValid = TRUE, and no timeout is logged for it.  (No edge lies
\* between the end of the loop and the publish, so io_outputValid is still
\* the value on which the loop ended.)
C23_ValidIsNeverATimeout ==
    (d_pc = "publish" /\ io_outputValid = 1) =>
        /\ ~d_timed_out
        /\ heap[d_txn].outputValid
        /\ heap[d_txn].outputGCD = io_outputGCD

\* C24: the driver asserts load together with value1 and value2 of the
\* transaction it pulled, in one step; load is asserted across exactly one
\* rising edge and deasserted right after it, and it stays deasserted
\* through the drain and wait phases, the publish and item_done, until the
\* next transaction is pulled and driven.  n_loads counts the edges at
\* which load was asserted: one for each transaction driven.
C24_LoadForOneEdge ==
    /\ wr.load = 1 <=> d_pc = "load"
    /\ wr.load = 1 => /\ wr.v1 = heap[d_txn].value1
                      /\ wr.v2 = heap[d_txn].value2
                      /\ wr.reset = 0
    /\ d_pc = "load" => n_loads = Len(received) - (IF d_ready THEN 0 ELSE 1)
    /\ d_pc = "drive" => n_loads = Len(received) - 1
    /\ d_pc \notin {"load", "drive"} => n_loads = Len(received)

C24_Witness ==
    /\ d_pc = "wait" /\ cycles > 0 /\ wr.load = 0 /\ inp.load = 0
    /\ Len(received) = 2 /\ n_loads = 2

\* C25: when the monitor samples load asserted, the value1 and value2 it
\* captures are the inputs of the transaction the driver drives at that
\* edge, and the k-th pair it captures is the pair of the k-th transaction
\* the driver pulled.  d_txn0 is the transaction as the driver pulled it;
\* m_seen counts the monitor's captures, and each of them is followed by a
\* state in which the monitor holds the captured transaction.
C25_MonitorCapturesDriverInputs ==
    /\ inp.load = 1 => /\ inp.v1 = d_txn0.value1 /\ inp.v2 = d_txn0.value2
                       /\ inp.v1 = heap[d_txn].value1
                       /\ inp.v2 = heap[d_txn].value2
    /\ m_pc \in {"wait", "publish"} =>
          /\ m_txn.value1 = d_txn0.value1 /\ m_txn.value2 = d_txn0.value2
          /\ m_txn.loadingValues
          /\ m_seen = Len(received)
    /\ m_seen <= n_loads /\ n_loads <= Len(received)
    /\ m_seen >= Len(received) - 1

C25_Witness ==
    /\ m_pc = "publish" /\ m_seen = 2 /\ Len(received) = 2
    /\ m_txn.value1 = 17 /\ m_txn.value2 = 19 /\ d_pc = "wait"

\* C26: the drain phase awaits at most 10 rising edges.  It is entered only
\* with result-valid asserted, it goes on only while the flag is sampled
\* asserted and fewer than 10 edges were awaited, and it ends at the first
\* edge after which the flag is sampled deasserted.  When the flag is still
\* asserted after the 10th edge the driver goes on to the wait phase (whose
\* loop then ends at once) and neither raises nor abandons the transaction.
C26_DrainIsBoundedAndTolerant ==
    /\ [](d_pc = "drain" => /\ wait_cycles < max_wait
                            /\ (~d_ready => io_outputValid = 1))
    /\ [][(d_pc # "drain" /\ d_pc' = "drain") =>
             (d_pc = "load" /\ io_outputValid = 1 /\ wait_cycles' = 0)]_vars
    /\ [][(d_pc = "drain" /\ d_ready /\ ~d_ready') =>
             IF io_outputValid = 0
               THEN d_pc' = "wait" /\ cycles' = 0
               ELSE IF wait_cycles + 1 < max_wait
                 THEN d_pc' = "drain" /\ wait_cycles' = wait_cycles + 1
                 ELSE d_pc' = "result" /\ cycles' = 0]_vars
    /\ [][(d_pc = "drain" /\ d_pc' # "drain") =>
             (d_ready /\ d_pc' \in {"wait", "result"} /\ received' = received)]_vars
    /\ [](d_pc = "result" /\ cycles = 0 =>
             io_outputValid = 1 /\ ~TimedOut(cycles))

\* The drain bound was exhausted: only the drain loop leaves the driver at
\* the end of drive_transaction with no edge awaited in the wait loop.
C26_Witness ==
    /\ d_pc = "result" /\ cycles = 0 /\ w_edges = 0 /\ io_outputValid = 1
    /\ Len(received) = 2

\* C27: the driver never captures a stale result.  Whenever it captures the
\* output for a transaction, it has sampled result-valid deasserted after
\* that transaction's load edge and before the capturing sample.  The
\* driver's samples after the load edge are those of the drain loop and of
\* the wait loop; the wait loop awaits an edge only on a sample of 0 and the
\* drain loop only on a sample of 1, so a sample of 0 was seen exactly when
\* the wait loop has awaited an edge (cycles > 0).
C27_NoStaleCapture ==
    (d_pc = "result" /\ ~TimedOut(cycles)) => cycles > 0

\* The monitor has published a transaction for the load it sampled last
\* (the transactions it creates carry loadingValues = TRUE).
MonitorPublishedThisLoad == m_last.loadingValues

\* C28: for every load for which both the driver and the monitor publish a
\* transaction, the two transactions are equal under the transaction's
\* equality (value1, value2, outputGCD, outputValid): the result the monitor
\* captured is the one of its captured inputs.  The monitor's transaction is
\* an object it creates itself, never the driver's.  The monitor ends a
\* reconstruction no later than the driver ends the same drive, so the
\* comparison is made where the driver publishes.
C28_MonitorAgreesWithDriver ==
    (d_pc = "publish" /\ MonitorPublishedThisLoad) =>
        TransactionEq(heap[d_txn], m_last)

\* C29: for every transaction delivered to the coverage collector, the
\* coprime bin is incremented exactly when the reference gcd of value1 and
\* value2 equals 1: counting by the expected gcd and counting by the
\* captured outputGCD give the same coprime_cases, for timed-out
\* transactions as well.
C29_CoprimeByReferenceGcd ==
    [][cov' # cov =>
         CountsIff(cov.coprime_cases, cov'.coprime_cases,
                   GreatestCommonDivisor(heap[d_txn].value1,
                                         heap[d_txn].value2) = 1)]_vars

\* The six bins of GCDCoverage.
CoverageBins ==
    {"zero_cases", "one_cases", "equal_cases", "coprime_cases",
     "max_value_cases", "power_of_two_cases"}

\* C30: in every reachable state each bin counter of the coverage lies
\* between 0 and total_transactions; no counter ever decreases; one receive
\* raises total_transactions by exactly 1 and each bin by at most 1.
C30_CoverageCountersBounded ==
    /\ [](/\ cov.total_transactions >= 0
          /\ \A b \in CoverageBins :
                cov[b] >= 0 /\ cov[b] <= cov.total_transactions)
    /\ [][/\ cov'.total_transactions >= cov.total_transactions
          /\ \A b \in CoverageBins : cov'[b] >= cov[b]]_vars
    /\ [][cov' # cov =>
            /\ cov'.total_transactions = cov.total_transactions + 1
            /\ \A b \in CoverageBins : cov'[b] <= cov[b] + 1]_vars

C30_Witness ==
    /\ g_seq = "coverage" /\ g_i = 2 /\ cov.total_transactions = 2
    /\ cov.one_cases = 2 /\ cov.equal_cases = 2 /\ cov.zero_cases = 0
    /\ cov.coprime_cases = 1 /\ cov.max_value_cases = 0
    /\ cov.power_of_two_cases = 2

\* The transaction in the driver's hands timed out and the scoreboard has
\* not received it yet.
TimeoutPending ==
    d_timed_out /\ (d_pc = "publish" \/ (d_pc = "ap_write" /\ sb_received < ap_writes))

\* C31: every transaction on which the driver times out reaches the
\* scoreboard with outputValid = FALSE and is counted in failed, never in
\* passed: failed accounts for every timeout the scoreboard has received and
\* passed only for transactions that did not time out.  A run in which the
\* driver timed out at least once ends with failed > 0 and the fatal report.
C31_TimeoutsAreFailures ==
    /\ (d_timed_out /\ d_pc \in {"publish", "ap_write", "item_done"}) =>
          ~heap[d_txn].outputValid
    /\ failed >= n_timeout - (IF TimeoutPending THEN 1 ELSE 0)
    /\ passed <= sb_received - (n_timeout - (IF TimeoutPending THEN 1 ELSE 0))
    /\ (n_timeout > 0 /\ phase = "report") => failed > 0
    /\ (n_timeout > 0 /\ phase \notin {"run", "report"}) =>
          phase = "fatal" /\ sb_raised /\ failed > 0

C31_Witness ==
    /\ phase = "fatal" /\ n_timeout = 1 /\ failed = 1 /\ passed = 1

\* The transaction of the last pass came out of randomize: every pass of
\* RandomGCDSequence, and the passes of BackToBackSequence that call it.
FromRandomize ==
    /\ g_pc = "sent"
    /\ \/ g_seq = "RandomGCDSequence"
       \/ g_seq = "BackToBackSequence" /\ (g_i - 1) % 3 # 0

\* a = base * m1 and b = base * m2 for one base in 1..20000 and multipliers
\* m1, m2 in 1..3 (the base is a divided by m1).
RelatedOperands(a, b) ==
    \E m1 \in 1..3, m2 \in 1..3 :
        /\ a % m1 = 0 /\ (a \div m1) \in 1..20000
        /\ b = (a \div m1) * m2

\* C32: every transaction randomize returns has loadingValues set and both
\* operands in 1..60000, so both fit in 16 bits; and whenever an operand
\* exceeds 10000 the two operands are multiples, by 1, 2 or 3, of one base
\* in 1..20000.
C32_RandomizeRange ==
    FromRandomize =>
        /\ g_txn.loadingValues
        /\ g_txn.value1 \in 1..60000 /\ g_txn.value2 \in 1..60000
        /\ g_txn.value1 <= MaxValue /\ g_txn.value2 <= MaxValue
        /\ (g_txn.value1 > 10000 \/ g_txn.value2 > 10000) =>
              RelatedOperands(g_txn.value1, g_txn.value2)

C32_Witness ==
    /\ FromRandomize /\ g_seq = "RandomGCDSequence"
    /\ g_txn.value1 = 60000 /\ g_txn.value2 = 20000 /\ g_txn.loadingValues

\* The run drives one of the two literal lists into a correct design.
LiteralRunOnCorrectDesign ==
    /\ scn.seq \in {"DirectedGCDSequence", "CornerCaseSequence"}
    /\ scn.dut = "correct"

\* C33: every pair of the directed list and of the corner-case list has both
\* operands in 1..65535 and needs fewer than 1000 steps of the
\* subtraction-based gcd; against a correct subtraction-based design the
\* driver's wait loop ends after exactly that many edges, so none of them
\* times out.
C33_LiteralPairsWithinBudget ==
    /\ \A k \in 1..Len(DirectedCases) :
          /\ DirectedCases[k][1] \in 1..MaxValue
          /\ DirectedCases[k][2] \in 1..MaxValue
          /\ SubtractSteps(DirectedCases[k][1], DirectedCases[k][2]) < max_cycles
    /\ \A k \in 1..Len(CornerCases) :
          /\ CornerCases[k][1] \in 1..MaxValue
          /\ CornerCases[k][2] \in 1..MaxValue
          /\ SubtractSteps(CornerCases[k][1], CornerCases[k][2]) < max_cycles
    /\ LiteralRunOnCorrectDesign =>
          /\ n_timeout = 0 /\ ~d_timed_out /\ cycles < max_cycles
          /\ d_pc = "result" =>
                cycles = SubtractSteps(heap[d_txn].value1, heap[d_txn].value2)

C33_Witness ==
    /\ LiteralRunOnCorrectDesign /\ scn.seq = "CornerCaseSequence"
    /\ d_pc = "result" /\ heap[d_txn].value1 = 255 /\ heap[d_txn].value2 = 256
    /\ cycles = 256 /\ io_outputValid = 1 /\ io_outputGCD = 1

\* The generator of the back-to-back transaction of the last pass: the
\* quick branch leaves loadingValues at its default, randomize sets it.
UsedQuick == ~g_txn.loadingValues

\* C34 as stated: the back-to-back sequence alternates its generators, so
\* the transactions of two consecutive passes never come from the same
\* generator.
C34_StrictAlternation ==
    [][(g_seq = "BackToBackSequence" /\ g_i >= 1 /\ g_i' = g_i + 1) =>
          (g_txn'.loadingValues # g_txn.loadingValues)]_vars

\* C34, amended: the back-to-back sequence produces num_txns transactions
\* (never more than the passes of its loop) and mixes its generators in a
\* fixed pattern of three: pass i, counted from 0, draws from the quick tier
\* (both operands in 1..100) exactly when i is a multiple of 3, and from the
\* full random policy otherwise.
C34_QuickEveryThird ==
    g_seq = "BackToBackSequence" =>
        /\ g_i <= GenMaxTxns
        /\ (g_pc = "body" /\ g_i < GenMaxTxns) => ENABLED G_BackToBack
        /\ g_i > 0 =>
              /\ UsedQuick <=> (g_i - 1) % 3 = 0
              /\ UsedQuick =>
                    g_txn.value1 \in 1..100 /\ g_txn.value2 \in 1..100
              /\ ~UsedQuick =>
                    g_txn.value1 \in 1..60000 /\ g_txn.value2 \in 1..60000

C34_Witness ==
    /\ g_seq = "BackToBackSequence" /\ g_i = 3 /\ g_pc = "sent"
    /\ ~UsedQuick /\ g_txn.value1 = 60000

\* C35: in FullTest the four sequences (directed, corner-case, random with
\* 50, back-to-back with 30) run strictly one after another on the one
\* sequencer.  Transactions are produced and pulled in the order of the
\* sequences, each carrying a pair of its own sequence; a transaction of a
\* later sequence is produced and pulled only after item_done of the last
\* transaction of the sequence before it; and when the objection is dropped,
\* after 20 more edges, the scoreboard has received 9 + 5 + 50 + 30 = 94
\* transactions.
C35_FullTestRunsInOrder ==
    scn.seq = "FullTest" =>
        /\ SegmentEnd(1) = 9 /\ SegmentEnd(2) = 14 /\ SegmentEnd(3) = 64
        /\ SegmentEnd(4) = 94
        /\ \A k \in 1..Len(produced) : produced[k] = k
        /\ \A k \in 1..Len(received) : received[k] = k
        /\ Len(received) > 0 =>
              <<d_txn0.value1, d_txn0.value2>> = FullTestDraw(Len(received) - 1)
        /\ \A s \in 1..3 :
              /\ Len(produced) > SegmentEnd(s) =>
                    n_done >= SegmentEnd(s) /\ n_finished >= SegmentEnd(s)
              /\ Len(received) > SegmentEnd(s) => n_done >= SegmentEnd(s)
        /\ t_pc = "drain" => n_done = 94 /\ n_finished = 94
        /\ t_pc = "dropped" =>
              /\ objection = 0 /\ t_edges = 20
              /\ sb_received = 94 /\ passed + failed = 94

C35_Witness ==
    /\ scn.seq = "FullTest" /\ t_pc = "dropped" /\ phase = "run"
    /\ sb_received = 94 /\ passed = 94 /\ Len(received) = 94

\* C36: the transactions the monitor publishes reach no subscriber.  A
\* monitor publish leaves the scoreboard's passed and failed and every
\* coverage counter unchanged; the counters change only inside a publish of
\* the driver, so they never count more than the driver has published.
C36_MonitorReachesNoSubscriber ==
    /\ [][m_published' # m_published =>
             /\ passed' = passed /\ failed' = failed /\ cov' = cov
             /\ sb_received' = sb_received /\ sb_raised' = sb_raised]_vars
    /\ [][(passed' # passed \/ failed' # failed \/ cov' # cov) =>
             /\ cur = "driver" /\ d_pc = "ap_write"
             /\ m_published' = m_published]_vars
    /\ [](/\ passed + failed <= ap_writes
          /\ cov.total_transactions <= ap_writes)

C36_Witness ==
    /\ m_published = 2 /\ ap_writes = 1 /\ d_pc = "wait"
    /\ passed + failed = 1 /\ cov.total_transactions = 1

\* The transactions the driver has published so far, by identity.
DriverPublished == {received[k] : k \in 1..ap_writes}

\* C37: once a transaction has been published, no later step of the
\* sequence, the driver, the monitor, the scoreboard or the coverage changes
\* any of its fields.  For as long as a transaction the driver has published
\* is referenced, every step leaves it as it is; the transaction the
\* monitor publishes is the one it captured, and it is referenced by
\* nothing afterwards.
C37_PublishedIsImmutable ==
    /\ [][\A id \in (DOMAIN heap) \cap (DOMAIN heap') :
             id \in DriverPublished => heap'[id] = heap[id]]_vars
    /\ [][m_published' # m_published => m_last' = m_txn]_vars
    /\ [][(m_last.loadingValues /\ m_last' # m_last) =>
             m_last' = GCDTransaction]_vars

C37_Witness ==
    /\ Len(produced) = 2 /\ Len(received) = 1 /\ ap_writes = 1 /\ n_done = 1
    /\ 1 \in DOMAIN heap /\ 1 \in DriverPublished
    /\ heap[1].outputValid /\ heap[1].outputGCD = Gcd(heap[1].value1, heap[1].value2)

\* The pair of the k-th transaction (from 1) of a run whose draws are fixed.
PairOf(k) == CHOOSE p \in Draws(k - 1) : TRUE

\* The transaction the driver publishes for a pair when the outcome depends
\* on the pair and on the design alone: left as created by a design that
\* never answers, completed with the reference gcd otherwise.
OutcomeOf(p) ==
    IF scn.dut = "stuck" THEN Literal(p)
    ELSE [Literal(p) EXCEPT !.outputGCD = Gcd(p[1], p[2]), !.outputValid = TRUE]

RECURSIVE CoverageAfter(_)
\* The coverage counters after the first k transactions of the run.
CoverageAfter(k) ==
    IF k = 0
      THEN [zero_cases |-> 0, one_cases |-> 0, equal_cases |-> 0,
            coprime_cases |-> 0, max_value_cases |-> 0,
            power_of_two_cases |-> 0, total_transactions |-> 0]
      ELSE coverage_write(CoverageAfter(k - 1), OutcomeOf(PairOf(k)))

\* C38: run outcomes are deterministic in clock edges.  For a fixed list of
\* produced transactions and a fixed response of the design at every edge,
\* passed, failed, the coverage counters and the timed-out transactions are
\* the same whatever the order in which the tasks an edge resumes are run:
\* after every publish and at the end of the run they are the values that
\* follow from the list and the design alone.
C38_OutcomeIndependentOfOrder ==
    /\ d_pc # "ap_write" =>
          /\ cov = CoverageAfter(ap_writes)
          /\ passed = (IF scn.dut = "stuck" THEN 0 ELSE ap_writes)
          /\ failed = (IF scn.dut = "stuck" THEN ap_writes ELSE 0)
    /\ d_pc \in {"publish", "ap_write", "item_done"} =>
          /\ d_timed_out <=> scn.dut = "stuck"
          /\ heap[d_txn] = OutcomeOf(PairOf(Len(received)))
    /\ n_timeout = (IF scn.dut = "stuck"
                      THEN ap_writes + (IF d_pc = "publish" THEN 1 ELSE 0)
                      ELSE 0)
    /\ phase \in {"done", "fatal"} =>
          /\ ap_writes = scn.n
          /\ phase = (IF scn.dut = "stuck" THEN "fatal" ELSE "done")

\* The driver has finished its last transaction in a time step in which the
\* monitor has not run yet.
C38_Witness ==
    /\ scn.order = "any" /\ scn.dut = "late" /\ m_ready
    /\ d_pc = "item_done" /\ ap_writes = scn.n /\ passed = scn.n

\* The two operands differ at most in their names and in loadingValues.
SameButNameAndLoad ==
    /\ g_txn.txn.value1 = m_txn.txn.value1
    /\ g_txn.txn.value2 = m_txn.txn.value2
    /\ g_txn.txn.outputGCD = m_txn.txn.outputGCD
    /\ g_txn.txn.outputValid = m_txn.txn.outputValid

\* C39: a freshly constructed transaction has value1 = 0, value2 = 0,
\* loadingValues = FALSE, outputGCD = 0 and outputValid = FALSE.  Equality
\* compares value1, value2, outputGCD and outputValid only: two transactions
\* that differ only in name or loadingValues are equal, equality is
\* reflexive and symmetric, and a comparison with an object that is not a
\* transaction is false.
C39_TransactionEquality ==
    g_seq = "equality" /\ g_pc # "new" =>
        /\ (g_pc = "fill" /\ g_i = 0) =>
              \A o \in EqOperands :
                 /\ o.txn.value1 = 0 /\ o.txn.value2 = 0
                 /\ o.txn.loadingValues = FALSE
                 /\ o.txn.outputGCD = 0 /\ o.txn.outputValid = FALSE
        /\ g_pc \in {"equal", "unequal"} =>
              (g_pc = "equal" <=>
                 (m_txn.kind = "GCDTransaction" /\ SameButNameAndLoad))
        /\ \A o \in EqOperands : GCDTransaction_eq(o, o)
        /\ m_txn.kind = "GCDTransaction" =>
              (GCDTransaction_eq(g_txn, m_txn) <=> GCDTransaction_eq(m_txn, g_txn))
        /\ m_txn.kind # "GCDTransaction" => ~GCDTransaction_eq(g_txn, m_txn)

C39_Witness ==
    /\ g_seq = "equality" /\ g_pc = "equal"
    /\ g_txn.name # m_txn.name
    /\ g_txn.txn.loadingValues # m_txn.txn.loadingValues
    /\ g_txn.txn.outputGCD = 6 /\ m_txn.txn.outputGCD = 6

====
